---- MODULE Spec2Model ----
(***************************************************************************)
(* Model of the chat application's streaming transport and of the client   *)
(* hook that assembles the conversation:                                   *)
(*   - server/index.ts  : the POST /api/chat/stream handler (encoder)      *)
(*   - hooks/useChat.ts : streamFromSse (decoder) and useChat (assembler)  *)
(* Text is a sequence of characters (one-character strings); what travels  *)
(* on the socket is a sequence of UTF-8 bytes.                             *)
(***************************************************************************)
EXTENDS Integers, Sequences, FiniteSets, TLC

(***************************************************************************)
(* Bounds of the model                                                     *)
(***************************************************************************)
\* longest variable tail of an agent answer
MaxLen == 2
\* longest raw (hand-built) stream, in frames
MaxFrames == 2

(***************************************************************************)
(* Characters                                                              *)
(***************************************************************************)
LF == "\n"
TAB == "\t"
SP == " "
QUOTE == "\""
BSL == "\\"
\* a character outside ASCII: two bytes in UTF-8
EACUTE == "U+00E9"
\* its two UTF-8 bytes, and the replacement character U+FFFD
ByteC3 == "0xC3"
ByteA9 == "0xA9"
REPLACEMENT == "U+FFFD"

\* the characters the agent's answers are drawn from
AnswerAlphabet == {"a", LF, QUOTE, BSL, EACUTE}

DATA == <<"d", "a", "t", "a", ":">>
EVENT == <<"e", "v", "e", "n", "t", ":">>
DONE == <<"[", "D", "O", "N", "E", "]">>
ERROR == <<"e", "r", "r", "o", "r">>
USAGE == <<"u", "s", "a", "g", "e">>
MESSAGE == <<"m", "e", "s", "s", "a", "g", "e">>
InvalidRequest == <<"I", "n", "v", "a", "l", "i", "d", " ", "r", "e", "q", "u", "e", "s", "t">>
UnknownError == <<"Unknown error">>

(***************************************************************************)
(* String primitives of the language, on character sequences               *)
(***************************************************************************)
Min(a, b) == IF a < b THEN a ELSE b
Max(a, b) == IF a > b THEN a ELSE b

\* the least element of a non-empty set of integers
Least(S) == CHOOSE i \in S : \A j \in S : i <= j

\* String.prototype.slice(from, to), 0-based, end exclusive, clipped
Slice(s, from, to) == SubSeq(s, Min(from, Len(s)) + 1, Min(to, Len(s)))

\* String.prototype.slice(from)
SliceFrom(s, from) == SubSeq(s, Min(from, Len(s)) + 1, Len(s))

StartsWith(s, p) == Len(s) >= Len(p) /\ SubSeq(s, 1, Len(p)) = p

\* String.prototype.indexOf("\n\n"): 0-based index of the first blank-line
\* delimiter, -1 when there is none
IndexOfSep(s) ==
    LET hits == {i \in 1..(Len(s) - 1) : s[i] = LF /\ s[i + 1] = LF}
    IN IF hits = {} THEN -1
       ELSE Least(hits) - 1

\* whitespace that trim()/trimStart() remove
IsSpace(c) == c \in {SP, LF, TAB}

RECURSIVE TrimStart(_)
TrimStart(s) ==
    IF s # <<>> /\ IsSpace(Head(s)) THEN TrimStart(Tail(s)) ELSE s

RECURSIVE TrimEnd(_)
TrimEnd(s) ==
    IF s # <<>> /\ IsSpace(s[Len(s)]) THEN TrimEnd(SubSeq(s, 1, Len(s) - 1)) ELSE s

Trim(s) == TrimEnd(TrimStart(s))

\* String.prototype.split("\n")
RECURSIVE SplitLines(_)
SplitLines(s) ==
    LET hits == {i \in 1..Len(s) : s[i] = LF}
    IN IF hits = {} THEN <<s>>
       ELSE LET i == Least(hits)
            IN <<SubSeq(s, 1, i - 1)>> \o SplitLines(SubSeq(s, i + 1, Len(s)))

\* Array.prototype.join("\n")
RECURSIVE JoinLines(_)
JoinLines(ls) ==
    IF ls = <<>> THEN <<>>
    ELSE IF Len(ls) = 1 THEN ls[1]
    ELSE ls[1] \o <<LF>> \o JoinLines(Tail(ls))

\* the concatenation of a sequence of sequences (by halves)
RECURSIVE Flatten(_)
Flatten(ss) ==
    IF ss = <<>> THEN <<>>
    ELSE IF Len(ss) = 1 THEN ss[1]
    ELSE LET h == Len(ss) \div 2
         IN Flatten(SubSeq(ss, 1, h)) \o Flatten(SubSeq(ss, h + 1, Len(ss)))


SelectFirst(ls, p) ==
    LET hits == {i \in 1..Len(ls) : StartsWith(ls[i], p)}
    IN IF hits = {} THEN 0 ELSE Least(hits)

(***************************************************************************)
(* JSON.stringify of a string                                              *)
(***************************************************************************)
\* escaping that leaves the newline as it is
JsonEscapeKeepsNewline(c) ==
    CASE c = QUOTE -> <<BSL, QUOTE>>
      [] c = BSL -> <<BSL, BSL>>
      [] c = TAB -> <<BSL, "t">>
      [] OTHER -> <<c>>

\* the escapes JSON.stringify applies to the characters of a string
JsonEscape(c) ==
    CASE c = QUOTE -> <<BSL, QUOTE>>
      [] c = BSL -> <<BSL, BSL>>
      [] c = LF -> <<BSL, "n">>
      [] c = TAB -> <<BSL, "t">>
      [] OTHER -> <<c>>

JsonStringify(s) ==
    <<QUOTE>> \o Flatten([i \in 1..Len(s) |-> JsonEscape(s[i])]) \o <<QUOTE>>

\* JSON.stringify({ message }) for a string message
JsonStringifyMessage(m) ==
    <<"{">> \o JsonStringify(MESSAGE) \o <<":">> \o JsonStringify(m) \o <<"}">>

(***************************************************************************)
(* JSON.parse: values are [t, v] with v a character sequence (string,      *)
(* number, literal) or a sequence of members (object) or elements (array). *)
(* A result is [ok, next, val]; next is the index after the value.         *)
(* \u escapes, fractions and exponents are outside the modelled alphabet.  *)
(***************************************************************************)
JsonFail == [ok |-> FALSE, next |-> 0, val |-> [t |-> "none", v |-> <<>>]]
JsonOk(n, ty, value) == [ok |-> TRUE, next |-> n, val |-> [t |-> ty, v |-> value]]

Digits == {"0", "1", "2", "3", "4", "5", "6", "7", "8", "9"}

IsJsonSpace(c) == c \in {SP, LF, TAB}

RECURSIVE SkipSpace(_, _)
SkipSpace(s, i) ==
    IF i <= Len(s) /\ IsJsonSpace(s[i]) THEN SkipSpace(s, i + 1) ELSE i

JsonUnescape(c) ==
    CASE c = QUOTE -> QUOTE
      [] c = BSL -> BSL
      [] c = "/" -> "/"
      [] c = "n" -> LF
      [] c = "t" -> TAB
      [] OTHER -> "invalid"

\* the body of a string literal, i is the index after the opening quote;
\* a run of plain characters is taken at once, up to the next quote,
\* backslash or control character
RECURSIVE ParseString(_, _, _)
ParseString(s, i, acc) ==
    LET stops == {j \in i..Len(s) : s[j] \in {QUOTE, BSL, LF, TAB}}
    IN IF stops = {} THEN JsonFail
       ELSE LET j == Least(stops)
                run == acc \o SubSeq(s, i, j - 1)
            IN IF s[j] = QUOTE THEN JsonOk(j + 1, "string", run)
               ELSE IF s[j] \in {LF, TAB} THEN JsonFail
               ELSE IF j + 1 > Len(s) \/ JsonUnescape(s[j + 1]) = "invalid"
               THEN JsonFail
               ELSE ParseString(s, j + 2, Append(run, JsonUnescape(s[j + 1])))

RECURSIVE DigitsEnd(_, _)
DigitsEnd(s, i) ==
    IF i <= Len(s) /\ s[i] \in Digits THEN DigitsEnd(s, i + 1) ELSE i

ParseNumber(s, i) ==
    LET start == IF s[i] = "-" THEN i + 1 ELSE i
        stop == DigitsEnd(s, start)
    IN IF stop = start THEN JsonFail
       ELSE IF s[start] = "0" /\ stop > start + 1 THEN JsonFail
       ELSE JsonOk(stop, "number", SubSeq(s, i, stop - 1))

ParseLiteral(s, i, word, ty) ==
    IF SubSeq(s, i, Min(i + Len(word) - 1, Len(s))) = word
    THEN JsonOk(i + Len(word), ty, word)
    ELSE JsonFail

RECURSIVE ParseValue(_, _)
RECURSIVE ParseMembers(_, _, _)
RECURSIVE ParseElements(_, _, _)

ParseValue(s, i0) ==
    LET i == SkipSpace(s, i0)
    IN IF i > Len(s) THEN JsonFail
       ELSE IF s[i] = QUOTE THEN ParseString(s, i + 1, <<>>)
       ELSE IF s[i] = "{" THEN
            LET j == SkipSpace(s, i + 1)
            IN IF j <= Len(s) /\ s[j] = "}" THEN JsonOk(j + 1, "object", <<>>)
               ELSE ParseMembers(s, j, <<>>)
       ELSE IF s[i] = "[" THEN
            LET j == SkipSpace(s, i + 1)
            IN IF j <= Len(s) /\ s[j] = "]" THEN JsonOk(j + 1, "array", <<>>)
               ELSE ParseElements(s, j, <<>>)
       ELSE IF s[i] = "t" THEN ParseLiteral(s, i, <<"t", "r", "u", "e">>, "true")
       ELSE IF s[i] = "f" THEN ParseLiteral(s, i, <<"f", "a", "l", "s", "e">>, "false")
       ELSE IF s[i] = "n" THEN ParseLiteral(s, i, <<"n", "u", "l", "l">>, "null")
       ELSE IF s[i] = "-" \/ s[i] \in Digits THEN ParseNumber(s, i)
       ELSE JsonFail

\* members of an object, i is the index of the next key's opening quote
ParseMembers(s, i0, acc) ==
    LET i == SkipSpace(s, i0)
    IN IF i > Len(s) \/ s[i] # QUOTE THEN JsonFail
       ELSE LET key == ParseString(s, i + 1, <<>>)
            IN IF ~key.ok THEN JsonFail
               ELSE LET c == SkipSpace(s, key.next)
                    IN IF c > Len(s) \/ s[c] # ":" THEN JsonFail
                       ELSE LET value == ParseValue(s, c + 1)
                            IN IF ~value.ok THEN JsonFail
                               ELSE LET e == SkipSpace(s, value.next)
                                        mem == Append(acc, [k |-> key.val.v, val |-> value.val])
                                    IN IF e > Len(s) THEN JsonFail
                                       ELSE IF s[e] = "}" THEN JsonOk(e + 1, "object", mem)
                                       ELSE IF s[e] = "," THEN ParseMembers(s, e + 1, mem)
                                       ELSE JsonFail

ParseElements(s, i0, acc) ==
    LET value == ParseValue(s, i0)
    IN IF ~value.ok THEN JsonFail
       ELSE LET e == SkipSpace(s, value.next)
                elems == Append(acc, value.val)
            IN IF e > Len(s) THEN JsonFail
               ELSE IF s[e] = "]" THEN JsonOk(e + 1, "array", elems)
               ELSE IF s[e] = "," THEN ParseElements(s, e + 1, elems)
               ELSE JsonFail

\* JSON.parse(text): fails unless exactly one value spans the whole text
JsonParse(s) ==
    LET r == ParseValue(s, 1)
    IN IF r.ok /\ SkipSpace(s, r.next) = Len(s) + 1 THEN r ELSE JsonFail

\* parsed.message of a parsed value: [throws, truthy, text]
MessageOf(val) ==
    IF val.t = "null" THEN [throws |-> TRUE, truthy |-> FALSE, text |-> <<>>]
    ELSE IF val.t # "object" THEN [throws |-> FALSE, truthy |-> FALSE, text |-> <<>>]
    ELSE LET hits == {i \in 1..Len(val.v) : val.v[i].k = MESSAGE}
         IN IF hits = {} THEN [throws |-> FALSE, truthy |-> FALSE, text |-> <<>>]
            ELSE LET m == val.v[CHOOSE i \in hits : \A j \in hits : i >= j].val
                 IN CASE m.t = "string" ->
                            [throws |-> FALSE, truthy |-> m.v # <<>>, text |-> m.v]
                      [] m.t \in {"null", "false"} ->
                            [throws |-> FALSE, truthy |-> FALSE, text |-> <<>>]
                      [] m.t = "number" ->
                            [throws |-> FALSE,
                             truthy |-> m.v \notin {<<"0">>, <<"-", "0">>},
                             text |-> m.v]
                      [] m.t = "true" ->
                            [throws |-> FALSE, truthy |-> TRUE, text |-> m.v]
                      [] OTHER ->
                            [throws |-> FALSE, truthy |-> TRUE, text |-> <<"[object]">>]

(***************************************************************************)
(* UTF-8 on the socket: res.write encodes, TextDecoder decodes             *)
(***************************************************************************)
Utf8Encode(s) ==
    Flatten([i \in 1..Len(s) |->
        IF s[i] = EACUTE THEN <<ByteC3, ByteA9>> ELSE <<s[i]>>])

\* UTF-8 decoding of the bytes kept from the last read followed by new
\* bytes: a lead byte with its continuation is one character, a lead byte
\* at the very end is kept, a stray byte is replaced by U+FFFD
Utf8Decode(pend, bytes) ==
    LET all == pend \o bytes
        n == Len(all)
        skip == "skip"
        at(i) ==
            IF all[i] = ByteC3
            THEN IF i = n THEN skip
                 ELSE IF all[i + 1] = ByteA9 THEN EACUTE ELSE REPLACEMENT
            ELSE IF all[i] = ByteA9
            THEN IF i > 1 /\ all[i - 1] = ByteC3 THEN skip ELSE REPLACEMENT
            ELSE all[i]
    IN [out |-> SelectSeq([i \in 1..n |-> at(i)], LAMBDA c : c # skip),
        pending |-> IF n > 0 /\ all[n] = ByteC3 THEN <<ByteC3>> ELSE <<>>]

\* decoder.decode(value) without the stream flag: an incomplete sequence at
\* the end of the read is replaced instead of being kept for the next read
DecodeNoStream(pend, bytes) ==
    LET r == Utf8Decode(<<>>, bytes)
    IN [out |-> IF r.pending = <<>> THEN r.out ELSE Append(r.out, REPLACEMENT),
        pending |-> <<>>]

\* decoder.decode(value, { stream: true })
DecodeStream(pend, bytes) == Utf8Decode(pend, bytes)

(***************************************************************************)
(* The encoder: POST /api/chat/stream                                      *)
(***************************************************************************)
chunkSize == 24

\* validation of one entry of messages; the content is a string or not
EntryOk(e) == e.role \in {"user", "assistant"} /\ e.contentIsString

\* chatSchema without the .min(1) constraint
ChatSchemaNoMin(body) ==
    /\ body.kind = "array"
    /\ \A i \in 1..Len(body.items) : EntryOk(body.items[i])

\* chatSchema.safeParse(req.body).success
ChatSchemaOk(body) ==
    /\ body.kind = "array"
    /\ Len(body.items) >= 1
    /\ \A i \in 1..Len(body.items) : EntryOk(body.items[i])

DataWrite(payload) == DATA \o <<SP>> \o payload \o <<LF, LF>>
DoneWrite == DataWrite(DONE)
EventErrorWrite == EVENT \o <<SP>> \o ERROR \o <<LF>>

\* the chunk loop with the bound of the last chunk off by one
RECURSIVE ChunkWritesShort(_, _)
ChunkWritesShort(answer, i) ==
    IF i < Len(answer)
    THEN <<DataWrite(JsonStringify(Slice(answer, i, i + chunkSize - 1)))>>
         \o ChunkWritesShort(answer, i + chunkSize)
    ELSE <<>>

\* for (let i = 0; i < answer.length; i += chunkSize) res.write(...)
RECURSIVE ChunkWrites(_, _)
ChunkWrites(answer, i) ==
    IF i < Len(answer)
    THEN <<DataWrite(JsonStringify(Slice(answer, i, i + chunkSize)))>>
         \o ChunkWrites(answer, i + chunkSize)
    ELSE <<>>

\* the writes of the success path
AnswerWrites(answer) == ChunkWrites(answer, 0) \o <<DoneWrite>>

\* the error path that forgets the event line
ErrorWritesNoEvent(message) ==
    <<DataWrite(JsonStringifyMessage(message)), DoneWrite>>

\* the writes of the catch block and of the validation failure
ErrorWrites(message) ==
    <<EventErrorWrite, DataWrite(JsonStringifyMessage(message)), DoneWrite>>

(***************************************************************************)
(* The decoder: the event loop of streamFromSse over the text buffer       *)
(***************************************************************************)
Undefined == <<"undefined">>

Call(cb, text, etype, retryable, ab) ==
    [cb |-> cb, text |-> text, etype |-> etype, retryable |-> retryable,
     aborted |-> ab]

\* lines.find(l => l.startsWith('event:'))?.slice('event:'.length).trim()
EventTypeOf(lines) ==
    LET i == SelectFirst(lines, EVENT)
    IN IF i = 0 THEN Undefined ELSE Trim(SliceFrom(lines[i], Len(EVENT)))

\* lines.filter(l => l.startsWith('data:')).map(l => l.slice(5).trimStart())
DataLinesOf(lines) ==
    LET kept == SelectSeq(lines, LAMBDA l : StartsWith(l, DATA))
    IN [i \in 1..Len(kept) |-> TrimStart(SliceFrom(kept[i], Len(DATA)))]

\* the callbacks of an error event
ErrorEventCalls(data, ab) ==
    LET p == JsonParse(data)
        m == MessageOf(p.val)
    IN IF p.ok /\ ~m.throws
       THEN <<Call("onError", IF m.truthy THEN m.text ELSE UnknownError,
                   "server", FALSE, ab)>>
       ELSE <<Call("onError", IF data # <<>> THEN data ELSE UnknownError,
                   "server", FALSE, ab)>>

\* the callbacks of a usage event
UsageEventCalls(data, ab) ==
    IF JsonParse(data).ok THEN <<Call("onUsage", data, "", FALSE, ab)>> ELSE <<>>

\* the callbacks of a text event
ChunkEventCalls(data, ab) ==
    LET p == JsonParse(data)
    IN IF ~p.ok THEN <<Call("onChunk", data, "", FALSE, ab)>>
       ELSE IF p.val.t = "string" THEN <<Call("onChunk", p.val.v, "", FALSE, ab)>>
       ELSE <<>>

DoneCall(ab) == Call("onDone", <<>>, "", FALSE, ab)

\* the handling of one event in which an error event does not return
EventOutcomeErrorGoesOn(eventType, dataLines, ab) ==
    LET data == JoinLines(dataLines)
    IN IF Len(dataLines) = 0 THEN [calls |-> <<>>, returns |-> FALSE]
       ELSE IF data = DONE THEN [calls |-> <<DoneCall(ab)>>, returns |-> TRUE]
       ELSE IF eventType = ERROR
       THEN [calls |-> ErrorEventCalls(data, ab), returns |-> FALSE]
       ELSE IF eventType = USAGE
       THEN [calls |-> UsageEventCalls(data, ab), returns |-> FALSE]
       ELSE [calls |-> ChunkEventCalls(data, ab), returns |-> FALSE]

\* the handling of one event in which the [DONE] event does not return
EventOutcomeDoneGoesOn(eventType, dataLines, ab) ==
    LET data == JoinLines(dataLines)
    IN IF Len(dataLines) = 0 THEN [calls |-> <<>>, returns |-> FALSE]
       ELSE IF data = DONE THEN [calls |-> <<DoneCall(ab)>>, returns |-> FALSE]
       ELSE IF eventType = ERROR
       THEN [calls |-> ErrorEventCalls(data, ab), returns |-> TRUE]
       ELSE IF eventType = USAGE
       THEN [calls |-> UsageEventCalls(data, ab), returns |-> FALSE]
       ELSE [calls |-> ChunkEventCalls(data, ab), returns |-> FALSE]

\* the handling of one event: the callbacks it invokes and whether
\* streamFromSse returns after it
EventOutcome(eventType, dataLines, ab) ==
    LET data == JoinLines(dataLines)
    IN IF Len(dataLines) = 0 THEN [calls |-> <<>>, returns |-> FALSE]
       ELSE IF data = DONE THEN [calls |-> <<DoneCall(ab)>>, returns |-> TRUE]
       ELSE IF eventType = ERROR
       THEN [calls |-> ErrorEventCalls(data, ab), returns |-> TRUE]
       ELSE IF eventType = USAGE
       THEN [calls |-> UsageEventCalls(data, ab), returns |-> FALSE]
       ELSE [calls |-> ChunkEventCalls(data, ab), returns |-> FALSE]

\* the record kept of one raw event
EventRecord(rawEvent) ==
    LET lines == SplitLines(rawEvent)
        dataLines == DataLinesOf(lines)
    IN [type |-> EventTypeOf(lines), nData |-> Len(dataLines),
        data |-> JoinLines(dataLines), dataLines |-> dataLines]

\* while (true) { const sep = buffer.indexOf('\n\n'); ... }: the events in
\* the buffer are handled in order until none is complete or one returns
RECURSIVE ProcessBuffer(_, _, _, _)
ProcessBuffer(buf, cs, evs, ab) ==
    LET sep == IndexOfSep(buf)
    IN IF sep = -1
       THEN [buffer |-> buf, calls |-> cs, events |-> evs, returned |-> FALSE]
       ELSE LET rest == SliceFrom(buf, sep + 2)
                ev == EventRecord(Slice(buf, 0, sep))
                o == EventOutcome(ev.type, ev.dataLines, ab)
                evs2 == Append(evs, [type |-> ev.type, nData |-> ev.nData,
                                     data |-> ev.data])
            IN IF o.returns
               THEN [buffer |-> rest, calls |-> cs \o o.calls, events |-> evs2,
                     returned |-> TRUE]
               ELSE ProcessBuffer(rest, cs \o o.calls, evs2, ab)

(***************************************************************************)
(* One request over the transport: the server handler, the socket and one  *)
(* call of streamFromSse                                                   *)
(***************************************************************************)
VARIABLES
    peer,        \* "server": the handler below answers; "raw": any byte stream
    reqBody,     \* req.body as express.json() left it
    agentResult, \* what runAgent does when invoked: [kind, text]
    spc,         \* handler position: "idle", "agent", "ended"
    writes,      \* the arguments of the res.write calls, in order
    agentCalls,  \* number of runAgent invocations
    wire,        \* the bytes of the response body
    response,    \* [status, hasBody] of the response the fetch resolves with
    cpc,         \* streamFromSse position: "fetch", "errbody", "reading", "returned"
    rpos,        \* number of bytes of wire already returned by reader.read()
    buffer,      \* the text buffer of streamFromSse
    pending,     \* the TextDecoder's incomplete byte sequence
    calls,       \* the callbacks invoked so far, in order
    events,      \* the raw events extracted from the buffer so far
    aborted,     \* params.signal.aborted
    netFailed    \* the fetch or a read failed for a reason other than abort

tvars == <<peer, reqBody, agentResult, spc, writes, agentCalls, wire, response,
           cpc, rpos, buffer, pending, calls, events, aborted, netFailed>>

(***************************************************************************)
(* The state of the useChat hook                                           *)
(***************************************************************************)
VARIABLES
    messages,             \* useState<Message[]>
    isStreaming,          \* useState(false)
    sessions,             \* useState<Session[]>
    currentSessionId,     \* useState<string | null>
    backendStatus,        \* 'online' | 'offline' | 'checking'
    lastRequestTime,      \* useState(0)
    stopStreamRef,        \* the stream whose controller the slot aborts, or Null
    activeAssistantIdRef, \* id of the assistant message in progress, or Null
    idCounter,            \* the counter behind makeId()
    clock,                \* Date.now()
    streams,              \* the streamFromSse calls scheduled so far
    resendTimers,         \* the setTimeout(() => sendMessage(...), 100) made so far
    closure,              \* the state values the memoised retry/edit callbacks see
    streamWrites,         \* for each stream: did it change the message list, and
                          \* did it do so after its controller was aborted
    edits,                \* how many deleteMessage, clearChat and renameSession
                          \* calls were made
    deleted               \* the ids of the messages deleteMessage removed

hvars == <<messages, isStreaming, sessions, currentSessionId, backendStatus,
           lastRequestTime, stopStreamRef, activeAssistantIdRef, idCounter, clock,
           streams, resendTimers, closure, streamWrites, edits, deleted>>

(***************************************************************************)
(* Operations run on their own                                             *)
(***************************************************************************)
VARIABLES
    assembly,             \* begin and the token appends of one assistant message
    budget,               \* how much a run of the hook may create
    agent,                \* one call of runAgent: its environment, maxSteps, step,
                          \* scratch, position and result
    parse                 \* one call of parseCodeBlocks: its text, lastIndex, result

ovars == <<assembly, budget, agent, parse>>

vars == <<tvars, hvars, ovars>>

\* every character sequence over an alphabet up to a length
SeqsUpTo(alphabet, n) == UNION {[1..k -> alphabet] : k \in 0..n}

Repeat(c, n) == [i \in 1..n |-> c]

\* answers: a run of plain characters that places the chunk boundary, then
\* a tail over the answer alphabet; and the sentinel text itself
PadLens == {0, chunkSize - 1, chunkSize}
Answers ==
    {Repeat("a", p) \o t : p \in PadLens, t \in SeqsUpTo(AnswerAlphabet, MaxLen)}
        \cup {DONE, DataWrite(DONE)}

\* messages of the error runAgent throws
ThrowMessages == {<<>>, <<"a">>, <<QUOTE, LF, LF>>, DONE}

AgentResults ==
    [kind : {"answer"}, text : Answers] \cup [kind : {"throw"}, text : ThrowMessages]

UserEntry == [role |-> "user", contentIsString |-> TRUE]
AssistantEntry == [role |-> "assistant", contentIsString |-> TRUE]
ValidBody == [kind |-> "array", items |-> <<UserEntry>>]

ReqBodies ==
    {[kind |-> "missing", items |-> <<>>],
     [kind |-> "notarray", items |-> <<>>],
     [kind |-> "array", items |-> <<>>],
     [kind |-> "array", items |-> <<[role |-> "system", contentIsString |-> TRUE]>>],
     [kind |-> "array", items |-> <<UserEntry, [role |-> "user", contentIsString |-> FALSE]>>],
     [kind |-> "array", items |-> <<UserEntry, AssistantEntry, UserEntry>>],
     ValidBody}

\* frames a peer other than the handler may send
RawFrames ==
    {DataWrite(JsonStringify(<<"a">>)),
     DataWrite(<<"a">>),
     DataWrite(<<"1">>),
     DATA \o DONE \o <<LF, LF>>,
     EventErrorWrite \o DoneWrite,
     EventErrorWrite \o DataWrite(JsonStringifyMessage(<<"a">>)),
     EventErrorWrite \o <<LF>>,
     EVENT \o USAGE \o <<LF>> \o DataWrite(<<"{", "}">>),
     DATA \o <<"a", LF>> \o DataWrite(<<EACUTE>>),
     DATA \o <<"a">>}

RawStreams == {Flatten(fs) : fs \in SeqsUpTo(RawFrames, MaxFrames)}

Statuses == {200, 404, 500}

\* response.ok
IsOk(status) == status >= 200 /\ status <= 299

Responses(p) ==
    IF p = "server" THEN {[status |-> 200, hasBody |-> TRUE]}
    ELSE [status : Statuses, hasBody : {TRUE}] \cup {[status |-> 200, hasBody |-> FALSE]}

\* messages of the error a failed read throws
ReadErrors == {<<"Cannot respond">>, <<"No request with id">>, <<"network down">>, <<>>}
\* one rejection that streamFromSse passes over and one that it reports
ChatReadErrors == {<<"Cannot respond">>, <<>>}

\* message.includes(marker), on messages made of whole phrases
Includes(message, marker) == \E i \in 1..Len(message) : message[i] = marker

ServerErrorText(status) == <<"Server error (", ToString(status), ")">>

TInit ==
    /\ peer \in {"server", "raw"}
    /\ \/ /\ peer = "server"
          /\ reqBody \in ReqBodies
          /\ IF reqBody = ValidBody
             THEN agentResult \in AgentResults
             ELSE agentResult = [kind |-> "answer", text |-> <<"a">>]
          /\ spc = "idle"
          /\ wire = <<>>
       \/ /\ peer = "raw"
          /\ reqBody = ValidBody
          /\ agentResult = [kind |-> "answer", text |-> <<"a">>]
          /\ spc = "ended"
          /\ wire \in {Utf8Encode(r) : r \in RawStreams}
    /\ writes = <<>>
    /\ agentCalls = 0
    /\ response = [status |-> 0, hasBody |-> FALSE]
    /\ cpc = "fetch"
    /\ rpos = 0
    /\ buffer = <<>>
    /\ pending = <<>>
    /\ calls = <<>>
    /\ events = <<>>
    /\ aborted = FALSE
    /\ netFailed = FALSE

clientVars == <<response, cpc, rpos, buffer, pending, calls, events, aborted, netFailed>>
serverVars == <<peer, reqBody, agentResult, spc, writes, agentCalls, wire>>

\* res.write/res.end of a list of strings
Written(ws) == Utf8Encode(Flatten(ws))

\* the handler up to its first await: headers, validation, runAgent call
HandleRequest ==
    /\ spc = "idle"
    /\ IF ~ChatSchemaOk(reqBody)
       THEN /\ writes' = ErrorWrites(InvalidRequest)
            /\ wire' = Written(ErrorWrites(InvalidRequest))
            /\ spc' = "ended"
            /\ UNCHANGED agentCalls
       ELSE /\ agentCalls' = agentCalls + 1
            /\ spc' = "agent"
            /\ UNCHANGED <<writes, wire>>
    /\ UNCHANGED <<peer, reqBody, agentResult>>
    /\ UNCHANGED clientVars
    /\ UNCHANGED <<hvars, ovars>>

\* runAgent resolves: the chunk loop, the sentinel, res.end()
AgentReturn ==
    /\ spc = "agent"
    /\ agentResult.kind = "answer"
    /\ writes' = AnswerWrites(agentResult.text)
    /\ wire' = Written(AnswerWrites(agentResult.text))
    /\ spc' = "ended"
    /\ UNCHANGED <<peer, reqBody, agentResult, agentCalls>>
    /\ UNCHANGED clientVars
    /\ UNCHANGED <<hvars, ovars>>

\* runAgent rejects: the catch block
AgentThrow ==
    /\ spc = "agent"
    /\ agentResult.kind = "throw"
    /\ writes' = ErrorWrites(agentResult.text)
    /\ wire' = Written(ErrorWrites(agentResult.text))
    /\ spc' = "ended"
    /\ UNCHANGED <<peer, reqBody, agentResult, agentCalls>>
    /\ UNCHANGED clientVars
    /\ UNCHANGED <<hvars, ovars>>

\* await fetch(...) resolves once the response headers have arrived
FetchResolve ==
    /\ cpc = "fetch"
    /\ spc # "idle"
    /\ \E r \in Responses(peer) :
        /\ response' = r
        /\ IF ~IsOk(r.status)
           THEN cpc' = "errbody" /\ UNCHANGED calls
           ELSE IF ~r.hasBody
           THEN /\ cpc' = "returned"
                /\ calls' = Append(calls,
                      Call("onError", <<"No response body">>, "server", FALSE, aborted))
           ELSE cpc' = "reading" /\ UNCHANGED calls
    /\ UNCHANGED <<rpos, buffer, pending, events, aborted, netFailed>>
    /\ UNCHANGED serverVars
    /\ UNCHANGED <<hvars, ovars>>

\* await fetch(...) rejects although the signal is not aborted
FetchReject ==
    /\ cpc = "fetch"
    /\ cpc' = "returned"
    /\ netFailed' = TRUE
    /\ calls' = Append(calls,
          Call("onError", <<"Network error. Please check your connection.">>,
               "network", TRUE, aborted))
    /\ UNCHANGED <<response, rpos, buffer, pending, events, aborted>>
    /\ UNCHANGED serverVars
    /\ UNCHANGED <<hvars, ovars>>

NotOkCallClientFaultRetryable(text, ab) ==
    Call("onError", IF text # <<>> THEN text ELSE ServerErrorText(response.status),
         "server", response.status >= 400, ab)

\* the error of a non-OK response: text || `Server error (${status})`
NotOkCall(text, ab) ==
    Call("onError", IF text # <<>> THEN text ELSE ServerErrorText(response.status),
         "server", response.status >= 500, ab)

\* await response.text().catch(() => '') resolves with the whole body
ErrBodyResolve ==
    /\ cpc = "errbody"
    /\ spc = "ended"
    /\ cpc' = "returned"
    /\ rpos' = Len(wire)
    /\ calls' = Append(calls, NotOkCall(Utf8Decode(<<>>, wire).out, aborted))
    /\ UNCHANGED <<response, buffer, pending, events, aborted, netFailed>>
    /\ UNCHANGED serverVars
    /\ UNCHANGED <<hvars, ovars>>

\* one reader.read() that returns k bytes, and the event loop over the buffer
Read(k) ==
    /\ cpc = "reading"
    /\ rpos + k <= Len(wire)
    /\ \E d \in {DecodeStream(pending, SubSeq(wire, rpos + 1, rpos + k))} :
       \E r \in {ProcessBuffer(buffer \o d.out, calls, events, aborted)} :
          /\ pending' = d.pending
          /\ buffer' = r.buffer
          /\ calls' = r.calls
          /\ events' = r.events
          /\ cpc' = IF r.returned THEN "returned" ELSE "reading"
    /\ rpos' = rpos + k
    /\ UNCHANGED <<response, aborted, netFailed>>
    /\ UNCHANGED serverVars
    /\ UNCHANGED <<hvars, ovars>>

ReadEndDropsPartial ==
    /\ cpc = "reading"
    /\ spc = "ended"
    /\ rpos = Len(wire)
    /\ cpc' = "returned"
    /\ calls' = IF buffer = <<>>
                THEN Append(calls, Call("onDone", <<>>, "", FALSE, aborted))
                ELSE calls
    /\ UNCHANGED <<response, rpos, buffer, pending, events, aborted, netFailed>>
    /\ UNCHANGED serverVars
    /\ UNCHANGED <<hvars, ovars>>

\* reader.read() returns done: the loop breaks and onDone is called
ReadEnd ==
    /\ cpc = "reading"
    /\ spc = "ended"
    /\ rpos = Len(wire)
    /\ cpc' = "returned"
    /\ calls' = Append(calls, Call("onDone", <<>>, "", FALSE, aborted))
    /\ UNCHANGED <<response, rpos, buffer, pending, events, aborted, netFailed>>
    /\ UNCHANGED serverVars
    /\ UNCHANGED <<hvars, ovars>>

\* reader.read() rejects although the signal is not aborted: the catch block
ReadFail(message) ==
    /\ cpc = "reading"
    /\ cpc' = "returned"
    /\ netFailed' = TRUE
    /\ IF Includes(message, "Cannot respond") \/ Includes(message, "No request with id")
       THEN UNCHANGED calls
       ELSE calls' = Append(calls,
               Call("onError", IF message # <<>> THEN message ELSE <<"Connection error">>,
                    "network", TRUE, aborted))
    /\ UNCHANGED <<response, rpos, buffer, pending, events, aborted>>
    /\ UNCHANGED serverVars
    /\ UNCHANGED <<hvars, ovars>>

\* controller.abort() rejects the pending await; its continuation runs as a
\* microtask of the same task.  The fetch and the stream read land in a catch
\* block that tests signal.aborted; response.text() lands in .catch(() => '')
AbortContinuation(phase) ==
    IF phase = "errbody" THEN <<NotOkCall(<<>>, TRUE)>> ELSE <<>>

\* the caller aborts the signal while streamFromSse is suspended
Abort ==
    /\ cpc \in {"fetch", "errbody", "reading"}
    /\ ~aborted
    /\ aborted' = TRUE
    /\ cpc' = "returned"
    /\ calls' = calls \o AbortContinuation(cpc)
    /\ UNCHANGED <<response, rpos, buffer, pending, events, netFailed>>
    /\ UNCHANGED serverVars
    /\ UNCHANGED <<hvars, ovars>>

TNext ==
    \/ HandleRequest
    \/ AgentReturn
    \/ AgentThrow
    \/ FetchResolve
    \/ FetchReject
    \/ ErrBodyResolve
    \/ \E k \in 1..(Len(wire) - rpos) : Read(k)
    \/ ReadEnd
    \/ \E m \in ReadErrors : ReadFail(m)
    \/ Abort

(***************************************************************************)
(* The assembler: the useChat hook.  The component stays mounted.  A       *)
(* handler and the microtasks it releases form one step; timers, network   *)
(* events and user events are separate steps in any order.                 *)
(***************************************************************************)
Null == 0
MIN_REQUEST_INTERVAL == 1000

\* bounds of the hook model
MaxCreated == 3
MaxCreatedOrEdited == 2
MaxClock == 1500

Greeting == <<"Hi! I'm your WebBot UI. Ask me anything.">>
StoppedNote == <<"\n\n[Generation stopped by user]">>
\* what the user types, what an edit puts in place, what the model streams
SendTexts == {<<"h">>, <<SP>>}
EditTexts == {<<"e">>}
Tokens == {<<"x">>}

NoError == [type |-> "none", message |-> <<>>, retryable |-> FALSE]
ErrorResponse(type, message, retryable) ==
    [type |-> type, message |-> message, retryable |-> retryable]

Message(id, role, content) ==
    [id |-> id, role |-> role, content |-> content, error |-> NoError,
     retryable |-> FALSE]

NewChat == <<"New Chat">>
TitleLength == 50

Session(id, title, msgs, at) ==
    [id |-> id, title |-> title, messages |-> msgs, createdAt |-> at,
     updatedAt |-> at]

FirstWithRole(msgs, role) ==
    LET hits == {i \in 1..Len(msgs) : msgs[i].role = role}
    IN IF hits = {} THEN 0 ELSE Least(hits)

\* generateSessionTitle(msgs)
GenerateSessionTitle(msgs) ==
    LET first == FirstWithRole(msgs, "user")
    IN IF first = 0 THEN NewChat
       ELSE LET title == Slice(msgs[first].content, 0, TitleLength)
            IN IF Len(title) < Len(msgs[first].content) THEN title \o <<"...">>
               ELSE title

\* a scheduled streamFromSse call: waiting for its setTimeout(0) ("timer"),
\* then in "fetch", "errbody" or "reading", then "ended"
NewStream(userId, assistantId, sessionId) ==
    [phase |-> "timer", aborted |-> FALSE, userId |-> userId,
     assistantId |-> assistantId, session |-> sessionId, status |-> 0, sent |-> 0,
     outcome |-> "none"]

\* the whole state of the hook as one value; touched records that
\* setMessages stored a new array during the step
Here ==
    [messages |-> messages, isStreaming |-> isStreaming, sessions |-> sessions,
     currentSessionId |-> currentSessionId, backendStatus |-> backendStatus,
     lastRequestTime |-> lastRequestTime, stopStreamRef |-> stopStreamRef,
     activeAssistantIdRef |-> activeAssistantIdRef, idCounter |-> idCounter,
     clock |-> clock, streams |-> streams, resendTimers |-> resendTimers,
     streamWrites |-> streamWrites, edits |-> edits, deleted |-> deleted,
     touched |-> FALSE]

\* the values of isStreaming, lastRequestTime and backendStatus a render sees
Seen(h) ==
    [isStreaming |-> h.isStreaming, lastRequestTime |-> h.lastRequestTime,
     backendStatus |-> h.backendStatus]

\* the effect on [messages, currentSessionId]: the current session takes the
\* message list
Sync(sess, cur, msgs, now) ==
    IF cur # Null /\ msgs # <<>>
    THEN [i \in 1..Len(sess) |->
            IF sess[i].id = cur
            THEN [sess[i] EXCEPT
                    !.messages = msgs,
                    !.updatedAt = now,
                    !.title = IF @ # <<>> THEN @ ELSE GenerateSessionTitle(msgs)]
            ELSE sess[i]]
    ELSE sess

\* the end of a step: React renders once, the session effect runs when the
\* messages or the current session changed, and retryMessage/editMessage are
\* re-created (with the sendMessage of this render) when the messages changed
Commit(after) ==
    \E h \in {after} :
        /\ messages' = h.messages
        /\ isStreaming' = h.isStreaming
        /\ sessions' = IF h.touched \/ h.currentSessionId # currentSessionId
                       THEN Sync(h.sessions, h.currentSessionId, h.messages, h.clock)
                       ELSE h.sessions
        /\ currentSessionId' = h.currentSessionId
        /\ backendStatus' = h.backendStatus
        /\ lastRequestTime' = h.lastRequestTime
        /\ stopStreamRef' = h.stopStreamRef
        /\ activeAssistantIdRef' = h.activeAssistantIdRef
        /\ idCounter' = h.idCounter
        /\ clock' = h.clock
        /\ streams' = h.streams
        /\ resendTimers' = h.resendTimers
        /\ streamWrites' = h.streamWrites
        /\ edits' = h.edits
        /\ deleted' = h.deleted
        /\ closure' = IF h.touched THEN Seen(h) ELSE closure

IndexOfId(msgs, id) ==
    LET hits == {i \in 1..Len(msgs) : msgs[i].id = id}
    IN IF hits = {} THEN -1 ELSE Least(hits) - 1

\* the updater of appendAssistantToken
AppendToken(msgs, id, token) ==
    LET index == IndexOfId(msgs, id)
    IN IF index = -1 THEN Append(msgs, Message(id, "assistant", token))
       ELSE [msgs EXCEPT ![index + 1].content = @ \o token]

\* appendAssistantToken(assistantMessageId, token)
AppendAssistantToken(h, id, token) ==
    IF token = <<>> THEN h
    ELSE [h EXCEPT !.messages = AppendToken(@, id, token), !.touched = TRUE]

\* bookkeeping: stream s has just changed the message list
StreamWrote(h, s) ==
    [h EXCEPT !.streamWrites =
        @ \cup {[stream |-> s, afterAbort |-> h.streams[s].aborted]}]

EndStream(h, s) == [h EXCEPT !.streams[s].phase = "ended"]

\* onChunk of stream s
OnChunk(h, s, token) ==
    IF token = <<>> THEN h
    ELSE StreamWrote(AppendAssistantToken(h, h.streams[s].assistantId, token), s)

\* onDone of stream s
OnDone(h, s) ==
    [EndStream(h, s) EXCEPT !.isStreaming = FALSE, !.stopStreamRef = Null,
                            !.activeAssistantIdRef = Null,
                            !.streams[s].outcome = "done"]

\* `\n\n[Error: ${error.message}]` and the retry hint
ErrorNote(err) ==
    <<"\n\n[Error: ">> \o err.message \o <<"]">>
        \o (IF err.retryable THEN <<" (You can retry this message)">> ELSE <<>>)

OnErrorDropsFlag(h, s, err) ==
    LET aid == h.streams[s].assistantId
        h1 == StreamWrote(AppendAssistantToken(EndStream(h, s), aid, ErrorNote(err)), s)
        marked == [i \in 1..Len(h1.messages) |->
                    IF h1.messages[i].id = aid
                    THEN [h1.messages[i] EXCEPT !.error = err, !.retryable = FALSE]
                    ELSE h1.messages[i]]
    IN [h1 EXCEPT !.isStreaming = FALSE, !.stopStreamRef = Null,
                  !.activeAssistantIdRef = Null, !.messages = marked,
                  !.streams[s].outcome = "error"]

\* onError of stream s
OnError(h, s, err) ==
    LET aid == h.streams[s].assistantId
        h1 == StreamWrote(AppendAssistantToken(EndStream(h, s), aid, ErrorNote(err)), s)
        marked == [i \in 1..Len(h1.messages) |->
                    IF h1.messages[i].id = aid
                    THEN [h1.messages[i] EXCEPT !.error = err, !.retryable = err.retryable]
                    ELSE h1.messages[i]]
    IN [h1 EXCEPT !.isStreaming = FALSE, !.stopStreamRef = Null,
                  !.activeAssistantIdRef = Null, !.messages = marked,
                  !.streams[s].outcome = "error"]

\* the error of a non-OK response whose body text is empty
NotOkError(status) == ErrorResponse("server", ServerErrorText(status), status >= 500)

\* controller.abort(): the pending await of the stream rejects
AbortStream(h, s) ==
    [h EXCEPT !.streams[s].aborted = TRUE, !.streams[s].phase = "ended"]

\* the continuation of the aborted stream, run once the handler that aborted
\* it has finished: the catch blocks of the fetch and of the read loop return,
\* the path of the non-OK response goes on to onError
AfterAbort(h, s, phase) ==
    IF phase = "errbody" THEN OnError(h, s, NotOkError(h.streams[s].status)) ELSE h

PhaseOf(h, s) == IF s = Null THEN "none" ELSE h.streams[s].phase

\* the setMessages updater of sendMessage: the user message and the empty
\* assistant message go to the end of the list
Begin(prev, userId, assistantId, text) ==
    prev \o <<Message(userId, "user", text), Message(assistantId, "assistant", <<>>)>>

\* sendMessage(content) as a render that saw `seen` runs it
SendMessageFrom(h, content, seen) ==
    LET text == Trim(content)
    IN IF text = <<>> \/ seen.isStreaming THEN h
       ELSE IF h.clock - seen.lastRequestTime < MIN_REQUEST_INTERVAL THEN h
       ELSE LET h1 == [h EXCEPT !.lastRequestTime = h.clock]
            IN IF seen.backendStatus = "offline" THEN h1
               ELSE LET s == h1.stopStreamRef
                        h2 == IF s # Null
                              THEN [AbortStream(h1, s) EXCEPT !.stopStreamRef = Null]
                              ELSE h1
                        userId == h.idCounter + 1
                        assistantId == h.idCounter + 2
                        h3 == [h2 EXCEPT
                                !.isStreaming = TRUE,
                                !.idCounter = assistantId,
                                !.activeAssistantIdRef = assistantId,
                                !.messages = Begin(@, userId, assistantId, text),
                                !.touched = TRUE,
                                !.streams = Append(@, NewStream(userId, assistantId,
                                                                h.currentSessionId))]
                    IN AfterAbort(h3, s, PhaseOf(h, s))

\* stopGeneration()
StopGenerationFrom(h) ==
    IF h.stopStreamRef = Null THEN h
    ELSE LET s == h.stopStreamRef
             h1 == [AbortStream(h, s) EXCEPT !.stopStreamRef = Null]
             h2 == IF h1.activeAssistantIdRef # Null
                   THEN AppendAssistantToken(h1, h1.activeAssistantIdRef, StoppedNote)
                   ELSE h1
             h3 == [h2 EXCEPT !.isStreaming = FALSE, !.activeAssistantIdRef = Null]
         IN AfterAbort(h3, s, PhaseOf(h, s))

\* switchSession(sessionId)
SwitchSessionFrom(h, sessionId) ==
    LET hits == {i \in 1..Len(h.sessions) : h.sessions[i].id = sessionId}
    IN IF hits = {} THEN h
       ELSE LET session == h.sessions[Least(hits)]
                s == h.stopStreamRef
                h1 == [h EXCEPT !.currentSessionId = sessionId,
                                !.messages = session.messages,
                                !.touched = (session.messages # h.messages)]
                h2 == IF s # Null
                      THEN [AbortStream(h1, s) EXCEPT !.stopStreamRef = Null,
                                                      !.isStreaming = FALSE]
                      ELSE h1
            IN AfterAbort(h2, s, PhaseOf(h, s))

\* createNewSession()
CreateNewSessionFrom(h) ==
    LET sessionId == h.idCounter + 1
        greeting == <<Message(h.idCounter + 2, "assistant", Greeting)>>
    IN [h EXCEPT !.idCounter = @ + 2,
                 !.sessions = <<Session(sessionId, NewChat, greeting, h.clock)>> \o @,
                 !.currentSessionId = sessionId,
                 !.messages = greeting,
                 !.touched = TRUE]

\* retryMessage(id) and editMessage(id, newContent): the list is cut before
\* the message and a timer will call the sendMessage this callback closed over
ResendFrom(h, id, content, seen) ==
    LET messageIndex == IndexOfId(h.messages, id)
    IN IF messageIndex = -1 THEN h
       ELSE IF h.messages[messageIndex + 1].role # "user" THEN h
       ELSE [h EXCEPT !.messages = Slice(@, 0, messageIndex),
                      !.touched = TRUE,
                      !.resendTimers = Append(@, [content |-> content, seen |-> seen,
                                                  fired |-> FALSE])]

\* titles the user types when renaming
RenameTitles == {<<"T">>, <<>>}

Reverse(seq) == [i \in 1..Len(seq) |-> seq[Len(seq) + 1 - i]]

DeleteMessageReorders(h, id) ==
    [h EXCEPT !.messages = Reverse(SelectSeq(@, LAMBDA m : m.id # id)),
              !.touched = TRUE,
              !.edits = @ + 1,
              !.deleted = IF IndexOfId(h.messages, id) # -1 THEN @ \cup {id} ELSE @]

\* deleteMessage(messageId)
DeleteMessageFrom(h, id) ==
    [h EXCEPT !.messages = SelectSeq(@, LAMBDA m : m.id # id),
              !.touched = TRUE,
              !.edits = @ + 1,
              !.deleted = IF IndexOfId(h.messages, id) # -1 THEN @ \cup {id} ELSE @]

\* clearChat(): the session gets one new greeting and the list another
ClearChatFrom(h) ==
    LET cur == h.currentSessionId
        hits == {i \in 1..Len(h.sessions) : h.sessions[i].id = cur}
    IN IF cur = Null THEN [h EXCEPT !.edits = @ + 1]
       ELSE IF hits = {} THEN [h EXCEPT !.edits = @ + 1]
       ELSE [h EXCEPT
               !.sessions = [i \in 1..Len(@) |->
                   IF @[i].id = cur
                   THEN [@[i] EXCEPT
                           !.messages = <<Message(h.idCounter + 1, "assistant", Greeting)>>,
                           !.updatedAt = h.clock]
                   ELSE @[i]],
               !.messages = <<Message(h.idCounter + 2, "assistant", Greeting)>>,
               !.idCounter = @ + 2,
               !.touched = TRUE,
               !.edits = @ + 1]

\* renameSession(sessionId, newTitle)
RenameSessionFrom(h, sessionId, newTitle) ==
    [h EXCEPT !.sessions = [i \in 1..Len(@) |->
                  IF @[i].id = sessionId THEN [@[i] EXCEPT !.title = newTitle]
                  ELSE @[i]],
              !.edits = @ + 1]

DeleteSessionStaysOnDeleted(h, sessionId) ==
    [h EXCEPT !.sessions = SelectSeq(@, LAMBDA x : x.id # sessionId),
              !.edits = @ + 1]

\* deleteSession(sessionId): the session leaves the list; when it was the
\* current one, the first session that remains, or a new one, becomes current
DeleteSessionFrom(h, sessionId) ==
    LET remaining == SelectSeq(h.sessions, LAMBDA x : x.id # sessionId)
        h1 == [h EXCEPT !.sessions = remaining, !.edits = @ + 1]
    IN IF h.currentSessionId # sessionId THEN h1
       ELSE IF Len(remaining) > 0 THEN SwitchSessionFrom(h1, remaining[1].id)
       ELSE CreateNewSessionFrom(h1)

\* MessageBubble: the action row of message i is rendered
ShowActions(msgs, i, streaming) == ~streaming \/ i < Len(msgs)

\* MessageBubble: the retry button of message i is rendered
RetryOffered(msgs, i, streaming) ==
    /\ ShowActions(msgs, i, streaming)
    /\ ~(msgs[i].role = "assistant" /\ msgs[i].content = <<>>)
    /\ msgs[i].error # NoError
    /\ msgs[i].retryable
    /\ msgs[i].role = "user"

\* what the load effect finds: nothing stored (createNewSession makes the
\* first session), or one stored session holding an earlier exchange
StoredSessions ==
    {<<Session(1, NewChat, <<Message(2, "assistant", Greeting)>>, MIN_REQUEST_INTERVAL)>>,
     <<Session(1, <<>>, <<Message(2, "assistant", Greeting), Message(3, "user", <<"h">>),
                          Message(4, "assistant", <<"x">>)>>, 0)>>}

RECURSIVE SentUpTo(_, _)
SentUpTo(strs, n) == IF n = 0 THEN 0 ELSE strs[n].sent + SentUpTo(strs, n - 1)

\* the streams and resend timers made so far, the sessions added, the text
\* events delivered and the deletions, clears and renames made
Created ==
    Len(streams) + Len(resendTimers) + (Len(sessions) - 1)
        + SentUpTo(streams, Len(streams)) + edits

HInit ==
    /\ \E stored \in StoredSessions :
          sessions = Sync(stored, 1, stored[1].messages, MIN_REQUEST_INTERVAL)
    /\ messages = sessions[1].messages
    /\ isStreaming = FALSE
    /\ currentSessionId = 1
    /\ backendStatus = "checking"
    /\ lastRequestTime = 0
    /\ stopStreamRef = Null
    /\ activeAssistantIdRef = Null
    /\ idCounter = Len(messages) + 1
    /\ clock = MIN_REQUEST_INTERVAL
    /\ streams = <<>>
    /\ resendTimers = <<>>
    /\ closure = [isStreaming |-> FALSE, lastRequestTime |-> 0,
                  backendStatus |-> "checking"]
    /\ streamWrites = {}
    /\ edits = 0
    /\ deleted = {}

\* the user sends a text
SendMessage(content) ==
    /\ Created < budget
    /\ Commit(SendMessageFrom(Here, content, Seen(Here)))
    /\ UNCHANGED <<tvars, ovars>>

\* the setTimeout(0) of sendMessage fires: the controller is created, the
\* slot takes its abort handle and streamFromSse starts its fetch
StartStream(s) ==
    /\ streams[s].phase = "timer"
    /\ Commit([Here EXCEPT !.streams[s].phase = "fetch", !.stopStreamRef = s])
    /\ UNCHANGED <<tvars, ovars>>

\* the fetch resolves with an OK response that has a body
FetchOk(s) ==
    /\ streams[s].phase = "fetch"
    /\ Commit([Here EXCEPT !.streams[s].phase = "reading"])
    /\ UNCHANGED <<tvars, ovars>>

\* the fetch resolves with a non-OK response: response.text() is awaited
FetchNotOk(s, status) ==
    /\ streams[s].phase = "fetch"
    /\ Commit([Here EXCEPT !.streams[s].phase = "errbody", !.streams[s].status = status])
    /\ UNCHANGED <<tvars, ovars>>

\* the fetch rejects
FetchFail(s) ==
    /\ streams[s].phase = "fetch"
    /\ Commit(OnError(Here, s,
          ErrorResponse("network", <<"Network error. Please check your connection.">>, TRUE)))
    /\ UNCHANGED <<tvars, ovars>>

\* the body of the non-OK response has been read
ErrBody(s) ==
    /\ streams[s].phase = "errbody"
    /\ Commit(OnError(Here, s, NotOkError(streams[s].status)))
    /\ UNCHANGED <<tvars, ovars>>

\* a read delivers a text event
Chunk(s, token) ==
    /\ streams[s].phase = "reading"
    /\ Created < budget
    /\ Commit(OnChunk([Here EXCEPT !.streams[s].sent = @ + 1], s, token))
    /\ UNCHANGED <<tvars, ovars>>

\* a read delivers the [DONE] event, or the body ends
Done(s) ==
    /\ streams[s].phase = "reading"
    /\ Commit(OnDone(Here, s))
    /\ UNCHANGED <<tvars, ovars>>

\* a read delivers an error event
ErrorEvent(s) ==
    /\ streams[s].phase = "reading"
    /\ Commit(OnError(Here, s, ErrorResponse("server", <<"a">>, FALSE)))
    /\ UNCHANGED <<tvars, ovars>>

\* a read rejects although the signal is not aborted
ReadFailure(s, message) ==
    /\ streams[s].phase = "reading"
    /\ IF Includes(message, "Cannot respond") \/ Includes(message, "No request with id")
       THEN Commit(EndStream(Here, s))
       ELSE Commit(OnError(Here, s,
               ErrorResponse("network",
                             IF message # <<>> THEN message ELSE <<"Connection error">>,
                             TRUE)))
    /\ UNCHANGED <<tvars, ovars>>

StopGeneration ==
    /\ Commit(StopGenerationFrom(Here))
    /\ UNCHANGED <<tvars, ovars>>

SwitchSession(sessionId) ==
    /\ Commit(SwitchSessionFrom(Here, sessionId))
    /\ UNCHANGED <<tvars, ovars>>

CreateNewSession ==
    /\ Created < budget
    /\ Commit(CreateNewSessionFrom(Here))
    /\ UNCHANGED <<tvars, ovars>>

RetryMessage(id) ==
    /\ Created < budget
    /\ IndexOfId(messages, id) # -1
    /\ Commit(ResendFrom(Here, id, messages[IndexOfId(messages, id) + 1].content, closure))
    /\ UNCHANGED <<tvars, ovars>>

EditMessage(id, newContent) ==
    /\ Created < budget
    /\ Commit(ResendFrom(Here, id, newContent, closure))
    /\ UNCHANGED <<tvars, ovars>>

\* the 100 ms timer t of retryMessage/editMessage fires
ResendTimer(t) ==
    /\ ~resendTimers[t].fired
    /\ Created < budget
    /\ Commit(SendMessageFrom([Here EXCEPT !.resendTimers[t].fired = TRUE],
                              resendTimers[t].content, resendTimers[t].seen))
    /\ UNCHANGED <<tvars, ovars>>

\* checkHealth(): the health request made on mount succeeds or fails (the
\* next one is 30 s away, beyond MaxClock)
CheckHealth(ok) ==
    /\ backendStatus = "checking"
    /\ Commit([Here EXCEPT !.backendStatus = IF ok THEN "online" ELSE "offline"])
    /\ UNCHANGED <<tvars, ovars>>

\* time passes, by more than any pending timer waits
Tick ==
    /\ clock + MIN_REQUEST_INTERVAL \div 2 <= MaxClock
    /\ \A t \in 1..Len(resendTimers) : resendTimers[t].fired
    /\ \A s \in 1..Len(streams) : streams[s].phase # "timer"
    /\ Commit([Here EXCEPT !.clock = @ + MIN_REQUEST_INTERVAL \div 2])
    /\ UNCHANGED <<tvars, ovars>>

\* an id that no session has
UnknownId == Null

StreamIds == 1..Len(streams)
MessageIds == {messages[i].id : i \in 1..Len(messages)}
SessionIds == {sessions[i].id : i \in 1..Len(sessions)}

HNext ==
    \/ \E content \in SendTexts : SendMessage(content)
    \/ \E s \in StreamIds : StartStream(s)
    \/ \E s \in StreamIds : FetchOk(s)
    \/ \E s \in StreamIds : \E status \in Statuses \ {200} : FetchNotOk(s, status)
    \/ \E s \in StreamIds : FetchFail(s)
    \/ \E s \in StreamIds : ErrBody(s)
    \/ \E s \in StreamIds : \E token \in Tokens : Chunk(s, token)
    \/ \E s \in StreamIds : Done(s)
    \/ \E s \in StreamIds : ErrorEvent(s)
    \/ \E s \in StreamIds : \E m \in ChatReadErrors : ReadFailure(s, m)
    \/ StopGeneration
    \/ \E id \in SessionIds \cup {UnknownId} : SwitchSession(id)
    \/ CreateNewSession
    \/ \E id \in MessageIds : RetryMessage(id)
    \/ \E id \in MessageIds : \E c \in EditTexts : EditMessage(id, c)
    \/ \E t \in 1..Len(resendTimers) : ResendTimer(t)
    \/ \E ok \in BOOLEAN : CheckHealth(ok)
    \/ Tick

DeleteMessage(id) ==
    /\ Created < budget
    /\ Commit(DeleteMessageFrom(Here, id))
    /\ UNCHANGED <<tvars, ovars>>

ClearChat ==
    /\ Created < budget
    /\ Commit(ClearChatFrom(Here))
    /\ UNCHANGED <<tvars, ovars>>

RenameSession(sessionId, newTitle) ==
    /\ Created < budget
    /\ Commit(RenameSessionFrom(Here, sessionId, newTitle))
    /\ UNCHANGED <<tvars, ovars>>

DeleteSession(sessionId) ==
    /\ Created < budget
    /\ Commit(DeleteSessionFrom(Here, sessionId))
    /\ UNCHANGED <<tvars, ovars>>

\* the hook with the operations that delete, clear and rename
SNext ==
    \/ HNext
    \/ \E id \in MessageIds : DeleteMessage(id)
    \/ ClearChat
    \/ \E id \in SessionIds : \E t \in RenameTitles : RenameSession(id, t)

\* the hook with the operations on the list of sessions
ListNext ==
    \/ HNext
    \/ \E id \in SessionIds : \E t \in RenameTitles : RenameSession(id, t)
    \/ \E id \in SessionIds \cup {UnknownId} : DeleteSession(id)

\* the transport at rest while the hook model runs
TIdle ==
    /\ peer = "raw"
    /\ reqBody = ValidBody
    /\ agentResult = [kind |-> "answer", text |-> <<"a">>]
    /\ spc = "ended"
    /\ writes = <<>>
    /\ agentCalls = 0
    /\ wire = <<>>
    /\ response = [status |-> 0, hasBody |-> FALSE]
    /\ cpc = "returned"
    /\ rpos = 0
    /\ buffer = <<>>
    /\ pending = <<>>
    /\ calls = <<>>
    /\ events = <<>>
    /\ aborted = FALSE
    /\ netFailed = FALSE

(***************************************************************************)
(* parseCodeBlocks: a text is cut at each match of the expression          *)
(* fence (\w+)? \n ([\s\S]*?) fence, a fence being three ticks.  Indices  *)
(* are those of the code, from 0.                                          *)
(***************************************************************************)
\* the character of a fence
TICK == "tick"
FENCE == <<TICK, TICK, TICK>>
WordChars == {"a", "b", "c", "j"}

\* a fence at index i
FenceAt(text, i) ==
    /\ i + 3 <= Len(text)
    /\ \A k \in 1..3 : text[i + k] = TICK

\* (\w+)? from index j: the index after the longest run of word characters
WordEnd(text, j) ==
    CHOOSE k \in j..Len(text) :
        /\ \A n \in (j + 1)..k : text[n] \in WordChars
        /\ k = Len(text) \/ text[k + 1] \notin WordChars

\* [\s\S]*? from index j: the index of the first fence at or after j
FirstClose(text, j) == Least({c \in j..Len(text) : FenceAt(text, c)})

MatchesAt(text, i) ==
    /\ FenceAt(text, i)
    /\ WordEnd(text, i + 3) < Len(text)
    /\ text[WordEnd(text, i + 3) + 1] = LF
    /\ \E c \in (WordEnd(text, i + 3) + 1)..Len(text) : FenceAt(text, c)

UNMATCHED == [index |-> 0 - 1]

\* regex.exec(text) with regex.lastIndex = from: the leftmost match
Exec(text, from) ==
    IF \E i \in from..Len(text) : MatchesAt(text, i)
    THEN LET i == Least({n \in from..Len(text) : MatchesAt(text, n)})
             w == WordEnd(text, i + 3)
             c == FirstClose(text, w + 1)
         IN  [index |-> i,
              language |-> SubSeq(text, i + 4, w),
              code |-> SubSeq(text, w + 2, c),
              lastIndex |-> c + 3]
    ELSE UNMATCHED

\* text.slice(from, to)
TextSlice(text, from, to) == SubSeq(text, from + 1, to)

PreTexts == {<<>>, <<"a">>, <<"a", LF>>}
LangTexts == {<<>>, <<"j">>}
CodeTexts == {<<>>, <<"c">>, <<"c", LF>>, <<LF, "c">>}
PostTexts == {<<>>, <<"b">>, <<LF>>, <<LF, "b">>}

\* pre, a fence, lang, a line feed, code, a fence, a line feed, post
FencedText(parts) ==
    parts.pre \o FENCE \o parts.lang \o <<LF>> \o parts.code \o FENCE \o <<LF>>
        \o parts.post

ParseIdle ==
    [pc |-> "idle", parts |-> [pre |-> <<>>, lang |-> <<>>, code |-> <<>>, post |-> <<>>],
     text |-> <<>>, lastIndex |-> 0, result |-> <<>>]

\* the while loop: one match
ParseMatch ==
    /\ parse.pc = "loop"
    /\ Exec(parse.text, parse.lastIndex) # UNMATCHED
    /\ \E match \in {Exec(parse.text, parse.lastIndex)} :
          parse' = [parse EXCEPT
             !.result =
                 (IF match.index > parse.lastIndex
                  THEN Append(@, [kind |-> "text",
                                  text |-> TextSlice(parse.text, parse.lastIndex,
                                                     match.index)])
                  ELSE @)
                 \o <<[kind |-> "block",
                       language |-> IF match.language # <<>> THEN match.language
                                    ELSE <<"text">>,
                       code |-> match.code]>>,
             !.lastIndex = match.lastIndex]
    /\ UNCHANGED <<tvars, hvars, assembly, budget, agent>>

\* what is returned once no match is left
ParseReturn(text, lastIndex, result) ==
    IF lastIndex < Len(text)
    THEN Append(result, [kind |-> "text", text |-> TextSlice(text, lastIndex, Len(text))])
    ELSE IF result # <<>> THEN result
    ELSE <<[kind |-> "text", text |-> text]>>

ParseEnd ==
    /\ parse.pc = "loop"
    /\ Exec(parse.text, parse.lastIndex) = UNMATCHED
    /\ parse' = [parse EXCEPT
                   !.pc = "done",
                   !.result = ParseReturn(parse.text, parse.lastIndex, parse.result)]
    /\ UNCHANGED <<tvars, hvars, assembly, budget, agent>>

ParseNext == ParseMatch \/ ParseEnd

(***************************************************************************)
(* The agent loop: runAgent.  A number is [nan, twice], twice its value,   *)
(* so that halves can be told from whole numbers.                          *)
(***************************************************************************)
MaxInvocations == 2
MaxCalls == 2
DefaultMaxSteps == 200

NaN == [nan |-> TRUE, twice |-> 0]
Num(twice) == [nan |-> FALSE, twice |-> twice]

DigitValue(c) == CHOOSE d \in 0..9 : ToString(d) = c

RECURSIVE DigitsValue(_)
DigitsValue(text) ==
    IF text = <<>> THEN 0
    ELSE 10 * DigitsValue(SubSeq(text, 1, Len(text) - 1)) + DigitValue(text[Len(text)])

AllDigits(text) == text # <<>> /\ \A i \in 1..Len(text) : text[i] \in Digits

\* Number(text) for a text that is not empty: whole numbers, numbers that end
\* in .5, and NaN for what is not a number
ToNumber(text) ==
    IF AllDigits(text) THEN Num(2 * DigitsValue(text))
    ELSE IF /\ Len(text) >= 3
            /\ AllDigits(SubSeq(text, 1, Len(text) - 2))
            /\ SubSeq(text, Len(text) - 1, Len(text)) = <<".", "5">>
    THEN Num(2 * DigitsValue(SubSeq(text, 1, Len(text) - 2)) + 1)
    ELSE NaN

\* Number(process.env.AGENT_MAX_STEPS || 200)
MaxStepsOf(env) == IF env = <<>> THEN Num(2 * DefaultMaxSteps) ELSE ToNumber(env)

\* `${maxSteps}`
NumberText(n) ==
    IF n.nan THEN <<"NaN">>
    ELSE IF n.twice % 2 = 0 THEN <<ToString(n.twice \div 2)>>
    ELSE <<ToString(n.twice \div 2), ".5">>

LoopOnInclusive(step, maxSteps) == ~maxSteps.nan /\ 2 * step <= maxSteps.twice

\* step < maxSteps
LoopOn(step, maxSteps) == ~maxSteps.nan /\ 2 * step < maxSteps.twice

\* the first sentence of the text that is returned after the loop
BudgetExhausted(maxSteps) ==
    <<"I've reached the maximum number of tool calls (">> \o NumberText(maxSteps)
        \o <<" steps) for this task.">>

\* what AGENT_MAX_STEPS may hold; <<>> is unset or empty
StepSettings ==
    {<<>>, <<"0">>, <<"1">>, <<"2">>, <<"1", ".", "5">>, <<"x">>}

AgentInputs ==
    {<<[role |-> "user", content |-> <<"h">>]>>,
     <<[role |-> "user", content |-> <<"h">>],
       [role |-> "assistant", content |-> <<"x">>],
       [role |-> "user", content |-> <<"h">>]>>}

\* a requested tool call: of a tool that is there and works, of a tool that
\* is not there, with arguments that are not JSON, of a tool that throws
CallKinds == {"known", "unknown", "badjson", "throws"}

CallLists == UNION {[1..n -> CallKinds] : n \in 0..MaxCalls}

\* ai.content: a string, or content parts
AiContents == {[string |-> TRUE, text |-> <<"a">>], [string |-> FALSE, text |-> <<>>]}

\* an answer with tool calls carries text; a final answer is of either kind
AiResponses ==
    {ai \in [content : AiContents, toolCalls : CallLists] :
        ai.toolCalls # <<>> => ai.content.string}

\* typeof ai.content === "string" ? ai.content : JSON.stringify(ai.content)
ContentText(content) == IF content.string THEN content.text ELSE <<"[", "]">>

\* the tool calls of the answer of a step, each with the id the model gave it
ToolCallsOf(kinds, step) ==
    [i \in 1..Len(kinds) |-> [id |-> <<step, i>>, kind |-> kinds[i]]]

\* the ToolMessage of one call
Observation(call) ==
    [kind |-> "tool", tool_call_id |-> call.id,
     content |-> CASE call.kind = "unknown" -> <<"Unknown tool: ", "nope">>
                   [] call.kind = "badjson" -> <<"Tool error: ", "Unexpected token">>
                   [] call.kind = "throws" -> <<"Tool error: ", "boom">>
                   [] OTHER -> <<"observation">>]

ObservationsSkipUnknown(toolCalls) ==
    [i \in 1..Len(SelectSeq(toolCalls, LAMBDA c : c.kind # "unknown")) |->
        Observation(SelectSeq(toolCalls, LAMBDA c : c.kind # "unknown")[i])]

\* for (const call of toolCalls): one ToolMessage for each call, in order
Observations(toolCalls) ==
    [i \in 1..Len(toolCalls) |-> Observation(toolCalls[i])]

\* new SystemMessage(systemPrompt) and one message for each turn
HistoryOf(msgs) ==
    <<[kind |-> "system"]>> \o
    [i \in 1..Len(msgs) |->
        [kind |-> IF msgs[i].role = "user" THEN "human" ELSE "ai",
         content |-> msgs[i].content, toolCalls |-> <<>>]]

AgentIdle ==
    [pc |-> "idle", key |-> FALSE, setting |-> <<>>, input |-> <<>>, maxSteps |-> NaN,
     step |-> 0, scratch |-> <<>>, invocations |-> 0, result |-> <<>>]

(***************************************************************************)
(* begin and appendAssistantToken on one assistant message, the two token  *)
(* appends in their order and begin at any point among them                *)
(***************************************************************************)
AssemblyTokens == {<<"x">>, <<"y">>, <<"x", "y">>}

AssemblyIdle == [id |-> Null, tokens |-> <<>>, applied |-> 0, begun |-> FALSE]

OIdle == assembly = AssemblyIdle /\ budget = 0 /\ agent = AgentIdle /\ parse = ParseIdle

AssemblyInit ==
    /\ TIdle
    /\ HInit
    /\ \E x \in AssemblyTokens, y \in AssemblyTokens :
          assembly = [id |-> idCounter + 2, tokens |-> <<x, y>>, applied |-> 0,
                      begun |-> FALSE]
    /\ budget = 0
    /\ agent = AgentIdle /\ parse = ParseIdle

\* begin("A"): the updater of sendMessage runs
BeginMessage ==
    /\ ~assembly.begun
    /\ messages' = Begin(messages, assembly.id - 1, assembly.id, <<"h">>)
    /\ assembly' = [assembly EXCEPT !.begun = TRUE]
    /\ UNCHANGED <<isStreaming, sessions, currentSessionId, backendStatus,
                   lastRequestTime, stopStreamRef, activeAssistantIdRef, idCounter,
                   clock, streams, resendTimers, closure, streamWrites, edits, deleted,
                   budget, agent, parse>>
    /\ UNCHANGED tvars

\* appendToken("A", token) for the next token
AppendNextToken ==
    /\ assembly.applied < Len(assembly.tokens)
    /\ messages' = AppendAssistantToken(Here, assembly.id,
                                        assembly.tokens[assembly.applied + 1]).messages
    /\ assembly' = [assembly EXCEPT !.applied = @ + 1]
    /\ UNCHANGED <<isStreaming, sessions, currentSessionId, backendStatus,
                   lastRequestTime, stopStreamRef, activeAssistantIdRef, idCounter,
                   clock, streams, resendTimers, closure, streamWrites, edits, deleted,
                   budget, agent, parse>>
    /\ UNCHANGED tvars

AssemblyNext == BeginMessage \/ AppendNextToken

AssemblySpec == AssemblyInit /\ [][AssemblyNext]_vars

\* one call of parseCodeBlocks on a text with one fenced block
ParseInit ==
    /\ TIdle
    /\ HInit
    /\ Len(messages) = 1
    /\ assembly = AssemblyIdle
    /\ budget = 0
    /\ agent = AgentIdle
    /\ \E parts \in [pre : PreTexts, lang : LangTexts, code : CodeTexts, post : PostTexts] :
          parse = [ParseIdle EXCEPT !.pc = "loop", !.parts = parts,
                                    !.text = FencedText(parts)]

ParseSpec == ParseInit /\ [][ParseNext]_vars

\* one call of runAgent
AgentInit ==
    /\ TIdle
    /\ HInit
    /\ Len(messages) = 1
    /\ assembly = AssemblyIdle
    /\ budget = 0
    /\ parse = ParseIdle
    /\ \E key \in BOOLEAN, setting \in StepSettings, input \in AgentInputs :
          agent = [AgentIdle EXCEPT !.pc = "start", !.key = key,
                                    !.setting = setting, !.input = input]

\* requireApiKey(), the history and maxSteps
AgentStart ==
    /\ agent.pc = "start"
    /\ agent' = IF ~agent.key THEN [agent EXCEPT !.pc = "thrown"]
                ELSE [agent EXCEPT !.pc = "loop",
                                   !.scratch = HistoryOf(agent.input),
                                   !.maxSteps = MaxStepsOf(agent.setting)]
    /\ UNCHANGED <<tvars, hvars, assembly, budget, parse>>

\* one turn of the loop: the model answers with ai, and each tool call of ai
\* leaves its observation
AgentInvoke(ai) ==
    /\ agent.pc = "loop"
    /\ LoopOn(agent.step, agent.maxSteps)
    /\ agent.invocations < MaxInvocations
    /\ agent' =
         IF ai.toolCalls = <<>>
         THEN [agent EXCEPT
                 !.pc = "returned",
                 !.invocations = @ + 1,
                 !.scratch = Append(@, [kind |-> "ai", content |-> ai.content,
                                        toolCalls |-> ai.toolCalls]),
                 !.result = ContentText(ai.content)]
         ELSE [agent EXCEPT
                 !.invocations = @ + 1,
                 !.scratch =
                     Append(@, [kind |-> "ai", content |-> ai.content,
                                toolCalls |-> ToolCallsOf(ai.toolCalls, agent.step)])
                     \o Observations(ToolCallsOf(ai.toolCalls, agent.step)),
                 !.step = @ + 1]
    /\ UNCHANGED <<tvars, hvars, assembly, budget, parse>>

\* model.invoke rejects
AgentInvokeThrows ==
    /\ agent.pc = "loop"
    /\ LoopOn(agent.step, agent.maxSteps)
    /\ agent.invocations < MaxInvocations
    /\ agent' = [agent EXCEPT !.pc = "thrown", !.invocations = @ + 1]
    /\ UNCHANGED <<tvars, hvars, assembly, budget, parse>>

\* the loop is over
AgentExhausted ==
    /\ agent.pc = "loop"
    /\ ~LoopOn(agent.step, agent.maxSteps)
    /\ agent' = [agent EXCEPT !.pc = "returned",
                              !.result = BudgetExhausted(agent.maxSteps)]
    /\ UNCHANGED <<tvars, hvars, assembly, budget, parse>>

AgentNext ==
    \/ AgentStart
    \/ \E ai \in AiResponses : AgentInvoke(ai)
    \/ AgentInvokeThrows
    \/ AgentExhausted

AgentSpec == AgentInit /\ [][AgentNext]_vars

\* one request over the transport, the hook at rest after a first load
Init == TInit /\ HInit /\ Len(messages) = 1 /\ OIdle
Spec == Init /\ [][TNext]_vars

\* the hook, its timers and its streams
ChatInit ==
    /\ TIdle /\ HInit
    /\ assembly = AssemblyIdle /\ agent = AgentIdle /\ parse = ParseIdle /\ budget = MaxCreated
ChatSpec == ChatInit /\ [][HNext]_vars

\* the hook with every operation on messages and sessions
SessionInit ==
    /\ TIdle /\ HInit
    /\ assembly = AssemblyIdle /\ agent = AgentIdle /\ parse = ParseIdle /\ budget = MaxCreatedOrEdited
SessionSpec == SessionInit /\ [][SNext]_vars

\* the hook with every operation on the list of sessions
SessionListSpec == SessionInit /\ [][ListNext]_vars

\* a step of the network on a stream: the fetch resolves or rejects, a read
\* returns data, the end of the body or a failure
NetworkStep ==
    \E s \in StreamIds :
        \/ FetchOk(s)
        \/ \E status \in Statuses \ {200} : FetchNotOk(s, status)
        \/ FetchFail(s)
        \/ ErrBody(s)
        \/ \E token \in Tokens : Chunk(s, token)
        \/ Done(s)
        \/ ErrorEvent(s)
        \/ \E m \in ChatReadErrors : ReadFailure(s, m)

\* a timer that was set runs: setTimeout(..., 0) and setTimeout(..., 100)
TimerStep ==
    \/ \E s \in StreamIds : StartStream(s)
    \/ \E t \in 1..Len(resendTimers) : ResendTimer(t)

\* the hook over a network that is fair and with timers that run
ChatFairSpec ==
    SessionInit /\ [][HNext]_vars /\ WF_vars(NetworkStep) /\ WF_vars(TimerStep)

(***************************************************************************)
(* Properties of the hook                                                  *)
(***************************************************************************)
LiveStreams ==
    {s \in StreamIds : streams[s].phase \in {"fetch", "errbody", "reading"}
                       /\ ~streams[s].aborted}

\* C6: at most one stream is live, and the slot holds the abort handle of
\* every live stream.
SingleLiveStream ==
    /\ Cardinality(LiveStreams) <= 1
    /\ \A s \in LiveStreams : stopStreamRef = s

\* C7: no stream changes the message list after its controller was aborted.
NoWriteAfterCancel == \A w \in streamWrites : ~w.afterAbort


(***************************************************************************)
(* Properties of the transport                                             *)
(***************************************************************************)
OnlyCalls(cs, cb) == SelectSeq(cs, LAMBDA c : c.cb = cb)
CountCalls(cs, cb) == Len(OnlyCalls(cs, cb))
LastCall(cs) == cs[Len(cs)]
ChunkText(cs) ==
    LET chunks == OnlyCalls(cs, "onChunk")
    IN Flatten([i \in 1..Len(chunks) |-> chunks[i].text])

\* the request was valid, the agent answered and nothing failed or was
\* cancelled on the way to the client
CleanAnswer ==
    /\ peer = "server"
    /\ reqBody.kind = "array" /\ reqBody.items # <<>>
    /\ \A i \in 1..Len(reqBody.items) : EntryOk(reqBody.items[i])
    /\ agentResult.kind = "answer"
    /\ ~aborted
    /\ ~netFailed

\* C1: when streamFromSse has returned from a stream of the handler's frames
\* for answer A, the onChunk payloads concatenated in order are exactly A,
\* and the only other callback is one onDone, invoked last.
RoundTrip ==
    (cpc = "returned" /\ CleanAnswer) =>
        /\ ChunkText(calls) = agentResult.text
        /\ calls # <<>>
        /\ LastCall(calls).cb = "onDone"
        /\ Len(calls) = CountCalls(calls, "onChunk") + 1

RoundTripWitness ==
    /\ cpc = "returned"
    /\ CleanAnswer
    /\ Len(agentResult.text) > chunkSize
    /\ \E i \in 1..(Len(agentResult.text) - 1) :
          agentResult.text[i] = LF /\ agentResult.text[i + 1] = LF
    /\ ChunkText(calls) = agentResult.text
    /\ CountCalls(calls, "onChunk") = 2

\* what streamFromSse invokes when the whole body arrives in one read
OneReadCalls(bytes) ==
    LET r == ProcessBuffer(Utf8Decode(<<>>, bytes).out, <<>>, <<>>, FALSE)
    IN IF r.returned THEN r.calls ELSE Append(r.calls, DoneCall(FALSE))

Established ==
    /\ cpc = "returned"
    /\ IsOk(response.status)
    /\ response.hasBody
    /\ ~aborted
    /\ ~netFailed

\* C2: however the body is cut into reads, streamFromSse has invoked, when
\* it returns, the same callbacks with the same arguments in the same order
\* as for the whole body delivered in a single read.
SplitInsensitive == Established => calls = OneReadCalls(wire)

SplitInsensitiveWitness ==
    /\ Established
    /\ \E i \in 1..Len(wire) : wire[i] = ByteC3
    /\ CountCalls(calls, "onChunk") >= 2
    /\ calls = OneReadCalls(wire)

\* C3: an event whose data payload is [DONE] is the last event handled, has
\* made streamFromSse return, and its onDone is the only onDone and the last
\* callback, whatever its event type and whatever follows it.
DoneTerminates ==
    \A i \in 1..Len(events) :
        events[i].data = DONE =>
            /\ i = Len(events)
            /\ cpc = "returned"
            /\ calls # <<>>
            /\ LastCall(calls).cb = "onDone"
            /\ CountCalls(calls, "onDone") = 1

DoneTerminatesWitness ==
    /\ events # <<>>
    /\ events[Len(events)].data = DONE
    /\ events[Len(events)].type = ERROR
    /\ IndexOfSep(buffer) # -1
    /\ LastCall(calls).cb = "onDone"

\* C4 as stated: every event of type error is the last event handled and
\* its onError is the only onError and the last callback.
ErrorEventAlwaysReported ==
    \A i \in 1..Len(events) :
        events[i].type = ERROR =>
            /\ i = Len(events)
            /\ cpc = "returned"
            /\ calls # <<>>
            /\ LastCall(calls).cb = "onError"
            /\ CountCalls(calls, "onError") = 1

\* C4: an event of type error that has at least one data line and whose data
\* payload is not [DONE] is the last event handled, has made streamFromSse
\* return, and its onError is the only onError and the last callback.
ErrorEventTerminates ==
    \A i \in 1..Len(events) :
        (events[i].type = ERROR /\ events[i].nData > 0 /\ events[i].data # DONE) =>
            /\ i = Len(events)
            /\ cpc = "returned"
            /\ calls # <<>>
            /\ LastCall(calls).cb = "onError"
            /\ CountCalls(calls, "onError") = 1

ErrorEventTerminatesWitness ==
    /\ events # <<>>
    /\ events[Len(events)].type = ERROR
    /\ events[Len(events)].nData > 0
    /\ events[Len(events)].data # DONE
    /\ IndexOfSep(buffer) # -1
    /\ LastCall(calls).cb = "onError"
    /\ LastCall(calls).text = <<"a">>

\* C5: no callback is invoked once the signal has been aborted.
NoCallbackAfterAbort == \A i \in 1..Len(calls) : ~calls[i].aborted

\* the raw events of a text, as the frame grammar separates them
RECURSIVE FramesOf(_)
FramesOf(text) ==
    LET sep == IndexOfSep(text)
    IN IF sep = -1 THEN <<>>
       ELSE <<EventRecord(Slice(text, 0, sep))>> \o FramesOf(SliceFrom(text, sep + 2))

\* what is left of a text after its last complete frame
RECURSIVE Residue(_)
Residue(text) ==
    LET sep == IndexOfSep(text)
    IN IF sep = -1 THEN text ELSE Residue(SliceFrom(text, sep + 2))

IsDoneFrame(f) == f.type = Undefined /\ f.nData = 1 /\ f.data = DONE
IsTextFrame(f) == f.type = Undefined /\ f.nData > 0 /\ f.data # DONE
IsErrorFrame(f) == f.type = ERROR
CarriesMessage(f, m) ==
    LET p == JsonParse(f.data)
    IN /\ p.ok
       /\ p.val.t = "object"
       /\ Len(p.val.v) = 1
       /\ p.val.v[1].k = MESSAGE
       /\ p.val.v[1].val.t = "string"
       /\ p.val.v[1].val.v = m

\* the i-th chunk (from 0) of an answer, for a chunk size
ChunkAt(A, i, N) == SubSeq(A, i * N + 1, Min((i + 1) * N, Len(A)))

IsTextWriteOf(w, chunk) ==
    /\ StartsWith(w, DATA \o <<SP>>)
    /\ Len(w) >= Len(DATA) + 3
    /\ SubSeq(w, Len(w) - 1, Len(w)) = <<LF, LF>>
    /\ LET p == JsonParse(SubSeq(w, Len(DATA) + 2, Len(w) - 2))
       IN p.ok /\ p.val.t = "string" /\ p.val.v = chunk

\* C8: for an answer A the handler writes ceil(|A|/N) text frames, the i-th
\* carrying the JSON encoding of A[i*N .. (i+1)*N), in increasing i, then
\* exactly one [DONE] frame as its last write.
ChunkFrames ==
    (peer = "server" /\ spc = "ended" /\ agentCalls = 1 /\ agentResult.kind = "answer") =>
        LET A == agentResult.text
            n == (Len(A) + chunkSize - 1) \div chunkSize
        IN /\ Len(writes) = n + 1
           /\ \A i \in 1..n : IsTextWriteOf(writes[i], ChunkAt(A, i - 1, chunkSize))
           /\ writes[n + 1] = DATA \o <<SP>> \o DONE \o <<LF, LF>>

ChunkFramesWitness ==
    /\ peer = "server"
    /\ spc = "ended"
    /\ agentCalls = 1
    /\ agentResult.kind = "answer"
    /\ Len(agentResult.text) = chunkSize + 1
    /\ agentResult.text[chunkSize] = LF
    /\ Len(writes) = 3

\* C9: when runAgent throws, the response is one error frame carrying the
\* message, then the [DONE] frame, and nothing else; and no response of the
\* handler holds both a text frame and an error frame.
ErrorResponseShape ==
    (peer = "server" /\ spc = "ended") =>
        LET fs == FramesOf(Flatten(writes))
        IN /\ Residue(Flatten(writes)) = <<>>
           /\ ~(\E i, j \in 1..Len(fs) : IsTextFrame(fs[i]) /\ IsErrorFrame(fs[j]))
           /\ (agentCalls = 1 /\ agentResult.kind = "throw") =>
                /\ Len(fs) = 2
                /\ IsErrorFrame(fs[1])
                /\ CarriesMessage(fs[1], agentResult.text)
                /\ IsDoneFrame(fs[2])

ErrorResponseShapeWitness ==
    /\ peer = "server"
    /\ spc = "ended"
    /\ agentCalls = 1
    /\ agentResult.kind = "throw"
    /\ agentResult.text = <<QUOTE, LF, LF>>
    /\ Len(writes) = 3

\* the request bodies the schema is meant to refuse
InvalidBody(body) ==
    \/ body.kind \in {"missing", "notarray"}
    \/ body.items = <<>>
    \/ \E i \in 1..Len(body.items) :
          \/ body.items[i].role \notin {"user", "assistant"}
          \/ ~body.items[i].contentIsString

\* C10: for a request body that fails validation the handler never invokes
\* runAgent and its response is one error frame with the message
\* "Invalid request" followed by the [DONE] frame.
InvalidRequestRefused ==
    (peer = "server" /\ InvalidBody(reqBody)) =>
        /\ agentCalls = 0
        /\ spc \in {"idle", "ended"}
        /\ spc = "ended" =>
            LET fs == FramesOf(Flatten(writes))
            IN /\ Len(fs) = 2
               /\ IsErrorFrame(fs[1])
               /\ CarriesMessage(fs[1], InvalidRequest)
               /\ IsDoneFrame(fs[2])
               /\ Residue(Flatten(writes)) = <<>>

InvalidRequestRefusedWitness ==
    /\ peer = "server"
    /\ reqBody.kind = "array"
    /\ reqBody.items = <<>>
    /\ spc = "ended"
    /\ agentCalls = 0
    /\ Len(writes) = 3

(***************************************************************************)
(* Properties of the assembler operations                                  *)
(***************************************************************************)
AssemblyDone == assembly.begun /\ assembly.applied = Len(assembly.tokens)

WithId(msgs, id) == {i \in 1..Len(msgs) : msgs[i].id = id}

FetchFailed == cpc = "returned" /\ netFailed /\ response.status = 0 /\ ~aborted

\* a response with a non-success status was received, the signal not aborted
NotOkReceived ==
    cpc = "returned" /\ response.status # 0 /\ ~IsOk(response.status) /\ ~aborted

\* an established stream failed during a read, the signal not aborted
ReadFailed ==
    /\ cpc = "returned"
    /\ IsOk(response.status) /\ response.hasBody
    /\ netFailed
    /\ ~aborted

OneErrorOnly(etype, retryable) ==
    /\ Len(calls) = 1
    /\ calls[1].cb = "onError"
    /\ calls[1].etype = etype
    /\ calls[1].retryable = retryable

\* C12: a fetch failure yields exactly one onError of type network that is
\* retryable, a non-success status exactly one onError of type server that is
\* retryable exactly for 5xx, and in both cases nothing else is invoked.
FailureClassified ==
    /\ FetchFailed => OneErrorOnly("network", TRUE)
    /\ NotOkReceived => OneErrorOnly("server", response.status \in 500..599)

FailureClassifiedWitness ==
    /\ NotOkReceived
    /\ response.status = 404
    /\ OneErrorOnly("server", FALSE)

\* C13: every failure of an established stream during a read, the signal not
\* aborted, ends in an onError of type network that is retryable, and it is
\* the only onError.
ReadFailureReported ==
    ReadFailed =>
        /\ CountCalls(calls, "onError") = 1
        /\ LastCall(calls).cb = "onError"
        /\ LastCall(calls).etype = "network"
        /\ LastCall(calls).retryable

(***************************************************************************)
(* Properties of sending                                                   *)
(***************************************************************************)
\* C14: while backendStatus is offline no step accepts a send: none
\* schedules a request (which comes with the two new messages) and none sets
\* isStreaming.
OfflineSendRejected ==
    [][backendStatus = "offline" =>
          /\ Len(streams') = Len(streams)
          /\ (isStreaming' => isStreaming)]_vars

(***************************************************************************)
(* Properties of failing and cancelling                                    *)
(***************************************************************************)
EndsWith(text, suffix) ==
    /\ Len(suffix) <= Len(text)
    /\ SliceFrom(text, Len(text) - Len(suffix)) = suffix

ContentOf(msgs, id) ==
    IF WithId(msgs, id) = {} THEN <<>> ELSE msgs[Least(WithId(msgs, id))].content

\* stream s ends with onError in this step
Fails(s) ==
    /\ s \in 1..Len(streams)
    /\ streams[s].outcome # "error"
    /\ streams'[s].outcome = "error"

RetryOfferedWhenRetryable ==
    \A s \in 1..Len(streams) :
        streams[s].outcome = "error" =>
            \A i \in WithId(messages, streams[s].userId),
               j \in WithId(messages, streams[s].assistantId) :
                messages[j].error # NoError =>
                    (RetryOffered(messages, i, isStreaming) <=> messages[j].retryable)

\* C17: a message that carries the cancellation annotation has the record
\* that fail gives for an error of type abort that is not retryable.
CancelIsAbortFail ==
    \A i \in 1..Len(messages) :
        Includes(messages[i].content, StoppedNote[1]) =>
            /\ messages[i].error.type = "abort"
            /\ ~messages[i].retryable

(***************************************************************************)
(* Properties of sessions                                                  *)
(***************************************************************************)
HasUserMessage(msgs) == FirstWithRole(msgs, "user") # 0

\* C18: when the first user message arrives in a session that still has the
\* title it was created with, the title becomes the one generated from that
\* message.
TitleFromFirstMessage ==
    [][\A i \in 1..Len(sessions'), j \in 1..Len(sessions) :
          (/\ sessions[j].id = sessions'[i].id
           /\ sessions[j].title = NewChat
           /\ ~HasUserMessage(sessions[j].messages)
           /\ HasUserMessage(sessions'[i].messages))
          => sessions'[i].title = GenerateSessionTitle(sessions'[i].messages)]_vars

\* the list is as it was, or the messages of `before` that are still in
\* `after` are there in the same order
OrderKept(before, after) ==
    \/ after = before
    \/ \A i \in 1..Len(before), j \in 1..Len(before) :
          i < j => \A k \in WithId(after, before[i].id),
                      l \in WithId(after, before[j].id) : k < l

\* C19: in no step does the updatedAt of a session decrease, and in no step
\* do two messages that stay in a session's list, or in the current list,
\* change their relative order.
SessionsMonotone ==
    [][/\ \A i \in 1..Len(sessions), j \in 1..Len(sessions') :
            sessions[i].id = sessions'[j].id =>
                /\ sessions'[j].updatedAt >= sessions[i].updatedAt
                /\ OrderKept(sessions[i].messages, sessions'[j].messages)
       /\ currentSessionId' = currentSessionId => OrderKept(messages, messages')]_vars

SessionsMonotoneWitness ==
    /\ edits > 0
    /\ Len(streams) > 0
    /\ Len(messages) >= 2
    /\ \E i \in 1..Len(sessions) : sessions[i].updatedAt > sessions[i].createdAt

(***************************************************************************)
(* Properties of the agent loop                                            *)
(***************************************************************************)
\* the answers the model gave in this call, in order
AgentAnswers ==
    SelectSeq(SubSeq(agent.scratch, Len(agent.input) + 2, Len(agent.scratch)),
              LAMBDA m : m.kind = "ai")

RequestsTools(m) == m.toolCalls # <<>>

\* C20: runAgent invokes the model at most maxSteps times; what it returns is
\* the content of the first answer that requests no tool call, and when each
\* of maxSteps answers requests tool calls, the budget-exhausted text
AgentBounded ==
    /\ agent.pc \in {"loop", "returned"} /\ ~agent.maxSteps.nan
         => 2 * agent.invocations <= agent.maxSteps.twice
    /\ agent.pc = "returned" =>
         IF \E i \in 1..Len(AgentAnswers) : ~RequestsTools(AgentAnswers[i])
         THEN /\ \A i \in 1..(Len(AgentAnswers) - 1) : RequestsTools(AgentAnswers[i])
              /\ agent.result = ContentText(AgentAnswers[Len(AgentAnswers)].content)
         ELSE /\ ~agent.maxSteps.nan => 2 * Len(AgentAnswers) = agent.maxSteps.twice
              /\ agent.result = BudgetExhausted(agent.maxSteps)

\* the messages of the scratch that this call added to the history
Added == SubSeq(agent.scratch, Len(agent.input) + 2, Len(agent.scratch))

\* C21: each tool call an answer requests, whether its tool is unknown, its
\* arguments are not JSON or its tool throws, leaves exactly one observation
\* with the id of the call, in the order of the calls, and the loop goes on;
\* runAgent throws only without credentials or when the model invocation
\* fails
ToolFailuresObserved ==
    /\ \A p \in 1..Len(Added) :
         Added[p].kind = "ai" /\ RequestsTools(Added[p]) =>
            /\ p + Len(Added[p].toolCalls) <= Len(Added)
            /\ \A i \in 1..Len(Added[p].toolCalls) :
                  /\ Added[p + i].kind = "tool"
                  /\ Added[p + i].tool_call_id = Added[p].toolCalls[i].id
            /\ \/ p + Len(Added[p].toolCalls) = Len(Added)
               \/ Added[p + Len(Added[p].toolCalls) + 1].kind = "ai"
            /\ agent.pc = "returned" /\ p + Len(Added[p].toolCalls) = Len(Added)
                  => agent.result = BudgetExhausted(agent.maxSteps)
    /\ Len(Added) > 0 => Added[1].kind = "ai"
    /\ agent.pc = "thrown" =>
          \/ ~agent.key
          \/ agent.invocations = Len(AgentAnswers) + 1

\* two failing tool calls were observed and the model answered again
ToolFailuresObservedWitness ==
    /\ Len(Added) >= 4
    /\ Len(Added[1].toolCalls) = 2
    /\ Added[1].toolCalls[1].kind = "unknown"
    /\ Added[1].toolCalls[2].kind = "throws"
    /\ Added[4].kind = "ai"

(***************************************************************************)
(* Properties of parseCodeBlocks                                           *)
(***************************************************************************)
TextSegment(text) == IF text = <<>> THEN <<>> ELSE <<[kind |-> "text", text |-> text]>>

\* C22: for pre, a fence, lang, a line feed, code, a fence, a line feed, post the
\* result is the text pre, the block of lang and code, and the text post,
\* in this order, and post does not start with the line feed that follows
\* the closing fence (a text that is empty gives no segment, and a block
\* without a language has the language "text")
FencedBlockParsed ==
    parse.pc = "done" =>
        parse.result =
            TextSegment(parse.parts.pre)
            \o <<[kind |-> "block",
                  language |-> IF parse.parts.lang # <<>> THEN parse.parts.lang
                               ELSE <<"text">>,
                  code |-> parse.parts.code]>>
            \o TextSegment(parse.parts.post)

(***************************************************************************)
(* Properties of the events of a stream                                    *)
(***************************************************************************)
\* the events handled so far that are neither [DONE] nor of type error or
\* usage and that have a data payload
TextEvents ==
    SelectSeq(events, LAMBDA e : e.nData > 0 /\ e.data # DONE
                                 /\ e.type \notin {ERROR, USAGE})

\* C23: each event that is not [DONE], not of type error or usage, and has a
\* data payload gives exactly one onChunk: with the decoded string when the
\* payload is a JSON string, with the payload as it is in every other case
ChunkPerEvent ==
    /\ CountCalls(calls, "onChunk") = Len(TextEvents)
    /\ \A i \in 1..Len(TextEvents) :
          OnlyCalls(calls, "onChunk")[i].text =
              IF JsonParse(TextEvents[i].data).ok
                 /\ JsonParse(TextEvents[i].data).val.t = "string"
              THEN JsonParse(TextEvents[i].data).val.v
              ELSE TextEvents[i].data

\* the body was read to its end, no [DONE] event and no error event was
\* handled, nothing failed and the signal is not aborted
EndReached ==
    /\ cpc = "returned"
    /\ IsOk(response.status)
    /\ response.hasBody
    /\ rpos = Len(wire)
    /\ ~netFailed
    /\ ~aborted
    /\ \A i \in 1..Len(events) :
          events[i].nData > 0 => events[i].data # DONE /\ events[i].type # ERROR

\* C24: when the body ends and neither a [DONE] event nor an error event was
\* handled and the signal is not aborted, onDone is invoked exactly once, as
\* the last callback, also when the buffer still holds a partial event
EndOfStreamDone ==
    EndReached =>
        /\ CountCalls(calls, "onDone") = 1
        /\ LastCall(calls).cb = "onDone"

\* the body ended in the middle of an event, after a token
EndOfStreamDoneWitness ==
    /\ EndReached
    /\ buffer # <<>>
    /\ CountCalls(calls, "onChunk") >= 1
    /\ CountCalls(calls, "onDone") = 1

(***************************************************************************)
(* Properties of the hook over time                                        *)
(***************************************************************************)
\* C25: over a fair network each send that was accepted, which sets
\* isStreaming, is followed by a state where isStreaming is false, whatever
\* the failure of a read
StreamingEnds == isStreaming ~> ~isStreaming

(***************************************************************************)
(* Properties of sessions and of the message list                          *)
(***************************************************************************)
\* C26: what a stream delivers is written only into the message list of the
\* session that was current when the stream was started: no other session
\* holds a message with the id of the stream's assistant message
SessionIsolation ==
    \A s \in StreamIds :
        \A k \in 1..Len(sessions) :
            sessions[k].id # streams[s].session =>
                WithId(sessions[k].messages, streams[s].assistantId) = {}

\* C27: a message that deleteMessage removed is in the message list in no
\* later state, also when it is the assistant message of a stream that still
\* delivers tokens
DeletionPermanent == \A id \in deleted : WithId(messages, id) = {}

\* C28: the resend of retryMessage and editMessage is never lost: when its
\* timer runs, a new user message with the content of the resend and a new
\* assistant message are added to the list, whatever isStreaming,
\* lastRequestTime and backendStatus are; a retry or edit of a message that
\* is not a user message changes nothing
ResendNeverLost ==
    [][/\ \A t \in 1..Len(resendTimers) :
            ~resendTimers[t].fired /\ resendTimers'[t].fired =>
                /\ Len(messages') = Len(messages) + 2
                /\ messages'[Len(messages) + 1].role = "user"
                /\ messages'[Len(messages) + 1].content = resendTimers[t].content
                /\ messages'[Len(messages) + 2].role = "assistant"
       /\ Len(resendTimers') > Len(resendTimers) =>
            /\ Len(messages') < Len(messages)
            /\ messages' = SubSeq(messages, 1, Len(messages'))
            /\ messages[Len(messages') + 1].role = "user"]_vars

\* C29: after the load the list of sessions is never empty and
\* currentSessionId is the id of a session of the list, whatever sessions
\* are created, switched to, deleted and renamed
CurrentSessionListed ==
    /\ Len(sessions) > 0
    /\ currentSessionId \in SessionIds

\* the session of the load was deleted and another session is current
CurrentSessionListedWitness ==
    /\ 1 \notin SessionIds
    /\ currentSessionId \in SessionIds
    /\ edits > 0

\* C30: a send that sendMessage rejects (empty text, a stream in progress,
\* less than MIN_REQUEST_INTERVAL since the last request, backend offline)
\* starts nothing and leaves messages, isStreaming, the cancellation slot, the
\* active assistant id and lastRequestTime as they were
RejectedSendChangesNothing ==
    [][(\E content \in SendTexts : SendMessage(content))
          /\ Len(streams') = Len(streams)
       => UNCHANGED <<messages, isStreaming, stopStreamRef, activeAssistantIdRef,
                      lastRequestTime>>]_vars

====
